---- MODULE Spec2Model ----
(***************************************************************************)
(* Model of the admission webhook's validation and mutation pipelines and  *)
(* of its endpoints:                                                       *)
(*   src/src/validators/base.py        BaseValidator, ValidatorChain       *)
(*   src/src/validators/security.py    SecurityContextValidator            *)
(*   src/src/validators/image_policy.py ImagePolicyValidator               *)
(*   src/src/validators/resource_requirements.py                           *)
(*                                      ResourceRequirementsValidator      *)
(*   src/src/mutators/base.py          MutationResult, MutatorChain        *)
(*   src/src/mutators/defaults.py      DefaultLabelsAnnotationsMutator,    *)
(*                                      DefaultSecurityContextMutator,     *)
(*                                      DefaultResourcesMutator            *)
(*   src/src/app/main.py               the /validate and /mutate handlers  *)
(*   src/src/schemas/admission.py      AdmissionReview, AdmissionResponse  *)
(* Python values are modelled as tagged JSON values; a Python string is a  *)
(* sequence of fragments whose concatenation is the string.                *)
(***************************************************************************)
EXTENDS Integers, Sequences, FiniteSets, TLC

VARIABLES
    validators,         \* ValidatorChain.validators / the rule under test (sequence of rule instances)
    mutators,           \* MutatorChain.mutators / the mutator under test (sequence of mutator instances)
    admission_request,  \* the request handed to the chain; mutators edit its object in place
    pc,                 \* "call" before the operation runs, "loop" inside the chain, "done" after return, "raised" after an exception
    idx,                \* position of the for loop of the chain (1-based)
    warnings,           \* the local list `warnings` of ValidatorChain.validate
    all_patches,        \* the local list `all_patches` of MutatorChain.mutate
    result,             \* the returned ValidationResult / MutationResult (NoResult before the return)
    invoked,            \* instrumentation hook: the calls <<position, method>> made on the rules / mutators, in order
    submitted,          \* instrumentation hook: the request's object as it was before the first call
    calls,              \* instrumentation hook: the number of calls of MutatorChain.mutate on the request
    review,             \* the AdmissionReview an endpoint of app/main.py was given (parsed request body)
    config,             \* the configuration as loaded at start: the WebhookConfig of app/main.py, or what the shared instances were constructed with
    operation,          \* the endpoint the review was posted to: "validate" or "mutate"
    response,           \* the HTTP response of the endpoint (NoResponse before it answers)
    inflight            \* the calls in progress on shared chain instances: call id -> its request and its locals

vars == <<validators, mutators, admission_request, pc, idx, warnings, all_patches, result, invoked, submitted, calls,
          review, config, operation, response, inflight>>

\* what the validation pipeline leaves alone
mutation_vars == <<mutators, all_patches, submitted, calls>>

\* what a single call of a chain, a rule or a mutator leaves alone
service_vars == <<review, config, operation, response, inflight>>

\* no endpoint and no concurrent call is involved
NoResponse == [none |-> TRUE]
ServiceIdle ==
    /\ review = [t |-> "null"]
    /\ config = [none |-> TRUE]
    /\ operation = "none"
    /\ response = NoResponse
    /\ inflight = <<>>

----------------------------------------------------------------------------
\* Bounds of the model

MaxContainers == 2
MaxRules == 2
MaxImageLen == 3
MaxMutators == 3
MaxCalls == 2
MaxInflight == 2

----------------------------------------------------------------------------
\* Python / JSON values

JNull == [t |-> "null"]
JBool(b) == [t |-> "bool", v |-> b]
JNum(n) == [t |-> "num", v |-> n]
JStr(s) == [t |-> "str", v |-> s]
JList(s) == [t |-> "list", v |-> s]
JMap(f) == [t |-> "map", v |-> f]

EmptyMap == JMap(<<>>)
EmptyList == JList(<<>>)
EmptyStr == JStr(<<>>)

IsMap(x) == x.t = "map"

\* bool(x): Python truthiness
Truthy(x) ==
    CASE x.t = "null" -> FALSE
      [] x.t = "bool" -> x.v
      [] x.t = "num" -> x.v # 0
      [] x.t = "str" -> x.v # <<>>
      [] x.t = "list" -> x.v # <<>>
      [] x.t = "map" -> DOMAIN x.v # {}

\* key in d, for a dict d
Contains(d, k) == k \in DOMAIN d.v

\* d.get(k, default), for a dict d
Get(d, k, default) == IF k \in DOMAIN d.v THEN d.v[k] ELSE default

\* type(x).__name__
PyType(x) ==
    CASE x.t = "null" -> "NoneType"
      [] x.t = "bool" -> "bool"
      [] x.t = "num" -> "int"
      [] x.t = "str" -> "str"
      [] x.t = "list" -> "list"
      [] x.t = "map" -> "dict"

\* str(x) inside an f-string, as fragments
PyStr(x) ==
    CASE x.t = "null" -> <<"None">>
      [] x.t = "bool" -> IF x.v THEN <<"True">> ELSE <<"False">>
      [] x.t = "num" -> <<ToString(x.v)>>
      [] x.t = "str" -> x.v
      [] OTHER -> <<"<", PyType(x), ">">>

\* str(e) of the AttributeError raised by x.attr
AttributeError(x, attr) == <<"'", PyType(x), "' object has no attribute '", attr, "'">>

\* str(e) of the TypeError raised by `for c in x`
NotIterableError(x) == <<"'", PyType(x), "' object is not iterable">>

\* `for c in x` succeeds on lists, strings and dicts
Iterable(x) == x.t \in {"list", "str", "map"}

\* an enumeration of a finite set, in some fixed order
RECURSIVE SetToSeq(_)
SetToSeq(S) ==
    IF S = {} THEN <<>>
    ELSE LET x == CHOOSE y \in S : TRUE IN <<x>> \o SetToSeq(S \ {x})

\* the items `for c in x` yields: the elements of a list, the pieces of a
\* string (each a str), the keys of a dict (each a str)
Items(x) ==
    CASE x.t = "list" -> x.v
      [] x.t = "str" -> [k \in 1..Len(x.v) |-> JStr(<<x.v[k]>>)]
      [] x.t = "map" -> LET ks == SetToSeq(DOMAIN x.v) IN [k \in 1..Len(ks) |-> JStr(<<ks[k]>>)]

----------------------------------------------------------------------------
\* ValidationResult (schemas/admission.py)

ValidationResult(allowed, message, warns) ==
    [allowed |-> allowed, message |-> message, warnings |-> warns]

Deny(text) == ValidationResult(FALSE, JStr(text), JNull)
Allow(text) == ValidationResult(TRUE, JStr(text), JNull)
NoResult == [allowed |-> FALSE, message |-> JNull, warnings |-> JNull, none |-> TRUE]

----------------------------------------------------------------------------
\* SecurityContextValidator (validators/security.py)

SecurityContextValidator(enforce_privileged, enforce_non_root, enforce_readonly_root, enforce_host_network) ==
    [class |-> "SecurityContextValidator",
     enforce_privileged |-> enforce_privileged,
     enforce_non_root |-> enforce_non_root,
     enforce_readonly_root |-> enforce_readonly_root,
     enforce_host_network |-> enforce_host_network]

DefaultSecurityContextValidator == SecurityContextValidator(TRUE, TRUE, TRUE, TRUE)

MsgHostNetwork == <<"Host network access is not allowed">>
MsgPrivileged == <<"Privileged containers are not allowed">>
MsgRoot == <<"Running as root is not allowed">>
MsgReadonly == <<"Root filesystem must be read-only">>
MsgSecurityPassed == <<"Security context validation passed">>
MsgInvalidPod == <<"Invalid pod specification">>

SecurityError(text) == Deny(<<"Security context validation error: ">> \o text)

\* run_as_user is not None and run_as_user == 0   (False == 0 in Python)
IsRootUser(run_as_user) ==
    \/ run_as_user.t = "num" /\ run_as_user.v = 0
    \/ run_as_user.t = "bool" /\ run_as_user.v = FALSE

\* the privileged check of one container (line 38)
PrivilegedViolation(self, security_context) ==
    self.enforce_privileged /\ Truthy(Get(security_context, "privileged", JBool(FALSE)))

\* the root-user check of one container (lines 42-45)
RootViolation(self, security_context) ==
    self.enforce_non_root /\ IsRootUser(Get(security_context, "runAsUser", JNull))

\* mutant: an absent readOnlyRootFilesystem counts as read-only
ReadonlyViolationDefaultTrue(self, security_context) ==
    self.enforce_readonly_root /\ ~Truthy(Get(security_context, "readOnlyRootFilesystem", JBool(TRUE)))

\* the read-only root filesystem check of one container (line 48)
ReadonlyViolation(self, security_context) ==
    self.enforce_readonly_root /\ ~Truthy(Get(security_context, "readOnlyRootFilesystem", JBool(FALSE)))

\* the host network check (line 31)
HostNetworkViolation(self, spec) ==
    self.enforce_host_network /\ Truthy(Get(spec, "hostNetwork", JBool(FALSE)))

\* the body of `for container in containers` from item k on (lines 34-51)
RECURSIVE SecurityContainerLoop(_, _, _)
SecurityContainerLoop(self, items, k) ==
    IF k > Len(items) THEN Allow(MsgSecurityPassed)
    ELSE LET container == items[k] IN
        IF ~IsMap(container) THEN SecurityError(AttributeError(container, "get"))
        ELSE LET security_context == Get(container, "securityContext", EmptyMap) IN
            IF ~IsMap(security_context)
            THEN \* security_context.get is reached only by an enabled check
                 IF self.enforce_privileged \/ self.enforce_non_root \/ self.enforce_readonly_root
                 THEN SecurityError(AttributeError(security_context, "get"))
                 ELSE SecurityContainerLoop(self, items, k + 1)
            ELSE IF PrivilegedViolation(self, security_context) THEN Deny(MsgPrivileged)
            ELSE IF RootViolation(self, security_context) THEN Deny(MsgRoot)
            ELSE IF ReadonlyViolation(self, security_context) THEN Deny(MsgReadonly)
            ELSE SecurityContainerLoop(self, items, k + 1)

\* mutant: the host network check runs after the containers
SecurityContextValidator__validateHostLast(self, request) ==
    LET pod == Get(request, "object", EmptyMap) IN
    IF ~Truthy(pod) \/ ~Contains(pod, "spec") THEN Deny(MsgInvalidPod)
    ELSE LET spec == Get(pod, "spec", EmptyMap) IN
        IF ~IsMap(spec) THEN SecurityError(AttributeError(spec, "get"))
        ELSE LET containers == Get(spec, "containers", EmptyList) IN
            IF ~Iterable(containers) THEN SecurityError(NotIterableError(containers))
            ELSE LET r == SecurityContainerLoop(self, Items(containers), 1) IN
                IF ~r.allowed THEN r
                ELSE IF HostNetworkViolation(self, spec) THEN Deny(MsgHostNetwork)
                ELSE r

\* SecurityContextValidator._validate(request): request is the inner
\* "request" dict; its "object" is a dict or None
SecurityContextValidator__validate(self, request) ==
    LET pod == Get(request, "object", EmptyMap) IN
    IF ~Truthy(pod) \/ ~Contains(pod, "spec") THEN Deny(MsgInvalidPod)
    ELSE LET spec == Get(pod, "spec", EmptyMap) IN
        IF ~IsMap(spec) THEN SecurityError(AttributeError(spec, "get"))
        ELSE LET containers == Get(spec, "containers", EmptyList) IN
            IF HostNetworkViolation(self, spec) THEN Deny(MsgHostNetwork)
            ELSE IF ~Iterable(containers) THEN SecurityError(NotIterableError(containers))
            ELSE SecurityContainerLoop(self, Items(containers), 1)

\* mutant: the rule supports every kind
SupportsAnyKind(self, request) == TRUE

\* kind in ["Pod", "Deployment"], kind read at request.kind.kind with
\* defaults {} / "" (supports() of the three rules); a rule that inherits
\* BaseValidator.supports supports every request
Validator_supports(self, request) ==
    LET req == Get(request, "request", EmptyMap) IN
    IF self.class = "BaseValidator" THEN TRUE
    ELSE IF ~IsMap(req) THEN FALSE
    ELSE LET gvk == Get(req, "kind", EmptyMap) IN
        IF ~IsMap(gvk) THEN FALSE
        ELSE Get(gvk, "kind", EmptyStr) \in {JStr(<<"Pod">>), JStr(<<"Deployment">>)}

----------------------------------------------------------------------------
\* ImagePolicyValidator (validators/image_policy.py)

\* self.allowed_registries = allowed_registries or ["docker.io"]
ImagePolicyValidator(allowed_registries, deny_latest_tag) ==
    [class |-> "ImagePolicyValidator",
     allowed_registries |-> IF allowed_registries # <<>> THEN allowed_registries ELSE <<<<"docker.io">>>>,
     deny_latest_tag |-> deny_latest_tag]

MsgImagePassed == <<"Image policy validation passed">>

ImageError(text) == Deny(<<"Image policy validation error: ">> \o text)

\* sub in s, for a one-fragment sub
HasFragment(s, sub) == \E k \in 1..Len(s) : s[k] = sub

\* ":latest" in image
HasLatestTag(image) == \E k \in 1..(Len(image) - 1) : image[k] = ":" /\ image[k + 1] = "latest"

\* image.split("/")[0]: the part before the first "/"
RECURSIVE BeforeFirstSlash(_)
BeforeFirstSlash(image) ==
    IF image = <<>> \/ Head(image) = "/" THEN <<>>
    ELSE <<Head(image)>> \o BeforeFirstSlash(Tail(image))

\* mutant: no default registry, registry = image.split("/")[0]
RegistryOfNoDefault(image) == BeforeFirstSlash(image)

\* registry = image.split("/")[0] if "/" in image else "docker.io"
RegistryOf(image) ==
    IF HasFragment(image, "/") THEN BeforeFirstSlash(image) ELSE <<"docker.io">>

\* x in lst, for a list of strings
InList(x, lst) == \E k \in 1..Len(lst) : lst[k] = x

\* ', '.join(lst)
RECURSIVE Join(_)
Join(lst) ==
    IF lst = <<>> THEN <<>>
    ELSE IF Len(lst) = 1 THEN lst[1]
    ELSE lst[1] \o <<", ">> \o Join(Tail(lst))

MsgNoImage(container) ==
    <<"Container ">> \o PyStr(Get(container, "name", JNull)) \o <<" has no image specified">>

MsgRegistry(self, registry) ==
    <<"Registry ">> \o registry \o <<" is not allowed. Allowed registries: ">> \o Join(self.allowed_registries)

MsgLatest(image) == <<"Latest tag is not allowed for image ">> \o image

\* the registry check of one image (lines 30-31)
RegistryViolation(self, image) == ~InList(RegistryOf(image), self.allowed_registries)

\* the latest-tag check of one image (line 38)
LatestViolation(self, image) ==
    self.deny_latest_tag /\ (HasLatestTag(image) \/ ~HasFragment(image, ":"))

\* mutant: the loop goes on after a violation and reports the last one
RECURSIVE ImageContainerLoopLast(_, _, _)
ImageContainerLoopLast(self, items, k) ==
    IF k > Len(items) THEN Allow(MsgImagePassed)
    ELSE LET container == items[k]
             later == ImageContainerLoopLast(self, items, k + 1) IN
        IF ~later.allowed THEN later
        ELSE IF ~IsMap(container) THEN ImageError(AttributeError(container, "get"))
        ELSE LET image == Get(container, "image", EmptyStr) IN
            IF ~Truthy(image) THEN Deny(MsgNoImage(container))
            ELSE IF image.t # "str" THEN ImageError(<<"argument of type '", PyType(image), "' is not iterable">>)
            ELSE IF RegistryViolation(self, image.v) THEN Deny(MsgRegistry(self, RegistryOf(image.v)))
            ELSE IF LatestViolation(self, image.v) THEN Deny(MsgLatest(image.v))
            ELSE later

\* the body of `for container in containers` from item k on (lines 21-44);
\* an image is a str or None in the modelled inputs
RECURSIVE ImageContainerLoop(_, _, _)
ImageContainerLoop(self, items, k) ==
    IF k > Len(items) THEN Allow(MsgImagePassed)
    ELSE LET container == items[k] IN
        IF ~IsMap(container) THEN ImageError(AttributeError(container, "get"))
        ELSE LET image == Get(container, "image", EmptyStr) IN
            IF ~Truthy(image) THEN Deny(MsgNoImage(container))
            ELSE IF image.t # "str" THEN ImageError(<<"argument of type '", PyType(image), "' is not iterable">>)
            ELSE IF RegistryViolation(self, image.v) THEN Deny(MsgRegistry(self, RegistryOf(image.v)))
            ELSE IF LatestViolation(self, image.v) THEN Deny(MsgLatest(image.v))
            ELSE ImageContainerLoop(self, items, k + 1)

\* ImagePolicyValidator._validate(request)
ImagePolicyValidator__validate(self, request) ==
    LET pod == Get(request, "object", EmptyMap) IN
    IF ~Truthy(pod) \/ ~Contains(pod, "spec") THEN Deny(MsgInvalidPod)
    ELSE LET spec == Get(pod, "spec", EmptyMap) IN
        IF ~IsMap(spec) THEN ImageError(AttributeError(spec, "get"))
        ELSE LET containers == Get(spec, "containers", EmptyList) IN
            IF ~Iterable(containers) THEN ImageError(NotIterableError(containers))
            ELSE ImageContainerLoop(self, Items(containers), 1)

----------------------------------------------------------------------------
\* ResourceRequirementsValidator (validators/resource_requirements.py)

ResourceRequirementsValidator(enforce_limits) ==
    [class |-> "ResourceRequirementsValidator", enforce_limits |-> enforce_limits]

MsgResourcesPassed == <<"Resource requirements validation passed">>

ResourceError(text) == Deny(<<"Resource requirements validation error: ">> \o text)

MsgMustSpecify(container, what) ==
    <<"Container ">> \o PyStr(Get(container, "name", JNull)) \o <<" must specify ", what>>

\* mutant: the memory limit is checked before the CPU limit
RECURSIVE ResourceContainerLoopMemoryFirst(_, _, _)
ResourceContainerLoopMemoryFirst(self, items, k) ==
    IF k > Len(items) THEN Allow(MsgResourcesPassed)
    ELSE LET container == items[k] IN
        IF ~IsMap(container) THEN ResourceError(AttributeError(container, "get"))
        ELSE LET resources == Get(container, "resources", EmptyMap) IN
            IF ~Truthy(resources) /\ self.enforce_limits THEN Deny(MsgMustSpecify(container, "resource requirements"))
            ELSE IF ~IsMap(resources) THEN ResourceError(AttributeError(resources, "get"))
            ELSE LET limits == Get(resources, "limits", EmptyMap)
                     requests == Get(resources, "requests", EmptyMap) IN
                IF ~self.enforce_limits THEN ResourceContainerLoopMemoryFirst(self, items, k + 1)
                ELSE IF ~IsMap(limits) THEN ResourceError(<<"argument of type '", PyType(limits), "' is not iterable">>)
                ELSE IF ~Contains(limits, "memory") THEN Deny(MsgMustSpecify(container, "memory limits"))
                ELSE IF ~Contains(limits, "cpu") THEN Deny(MsgMustSpecify(container, "CPU limits"))
                ELSE IF ~IsMap(requests) THEN ResourceError(<<"argument of type '", PyType(requests), "' is not iterable">>)
                ELSE IF ~Contains(requests, "cpu") THEN Deny(MsgMustSpecify(container, "CPU requests"))
                ELSE IF ~Contains(requests, "memory") THEN Deny(MsgMustSpecify(container, "memory requests"))
                ELSE ResourceContainerLoopMemoryFirst(self, items, k + 1)

\* the body of `for container in containers` from item k on (lines 31-72);
\* limits and requests are dicts or None in the modelled inputs
RECURSIVE ResourceContainerLoop(_, _, _)
ResourceContainerLoop(self, items, k) ==
    IF k > Len(items) THEN Allow(MsgResourcesPassed)
    ELSE LET container == items[k] IN
        IF ~IsMap(container) THEN ResourceError(AttributeError(container, "get"))
        ELSE LET resources == Get(container, "resources", EmptyMap) IN
            IF ~Truthy(resources) /\ self.enforce_limits THEN Deny(MsgMustSpecify(container, "resource requirements"))
            ELSE IF ~IsMap(resources) THEN ResourceError(AttributeError(resources, "get"))
            ELSE LET limits == Get(resources, "limits", EmptyMap)
                     requests == Get(resources, "requests", EmptyMap) IN
                IF ~self.enforce_limits THEN ResourceContainerLoop(self, items, k + 1)
                ELSE IF ~IsMap(limits) THEN ResourceError(<<"argument of type '", PyType(limits), "' is not iterable">>)
                ELSE IF ~Contains(limits, "cpu") THEN Deny(MsgMustSpecify(container, "CPU limits"))
                ELSE IF ~Contains(limits, "memory") THEN Deny(MsgMustSpecify(container, "memory limits"))
                ELSE IF ~IsMap(requests) THEN ResourceError(<<"argument of type '", PyType(requests), "' is not iterable">>)
                ELSE IF ~Contains(requests, "cpu") THEN Deny(MsgMustSpecify(container, "CPU requests"))
                ELSE IF ~Contains(requests, "memory") THEN Deny(MsgMustSpecify(container, "memory requests"))
                ELSE ResourceContainerLoop(self, items, k + 1)

\* ResourceRequirementsValidator._validate(request)
ResourceRequirementsValidator__validate(self, request) ==
    LET pod == Get(request, "object", EmptyMap) IN
    IF ~Truthy(pod) \/ ~Contains(pod, "spec") THEN Deny(MsgInvalidPod)
    ELSE LET spec == Get(pod, "spec", EmptyMap) IN
        IF ~IsMap(spec) THEN ResourceError(AttributeError(spec, "get"))
        ELSE LET containers == Get(spec, "containers", EmptyList) IN
            IF ~Iterable(containers) THEN ResourceError(NotIterableError(containers))
            ELSE ResourceContainerLoop(self, Items(containers), 1)

----------------------------------------------------------------------------
\* Dispatch on the rule's class, BaseValidator.validate and the override

\* a rule written against BaseValidator: its _validate returns the given
\* ValidationResult, validate() and supports() are inherited
RuleReturning(r) == [class |-> "BaseValidator", returns |-> r]

\* self._validate(request)
Validator__validate(self, request) ==
    CASE self.class = "BaseValidator" -> self.returns
      [] self.class = "SecurityContextValidator" -> SecurityContextValidator__validate(self, request)
      [] self.class = "ImagePolicyValidator" -> ImagePolicyValidator__validate(self, request)
      [] self.class = "ResourceRequirementsValidator" -> ResourceRequirementsValidator__validate(self, request)

MsgInvalidFormat == <<"Invalid admission request format">>
MsgMissingObject == <<"Missing request object">>
MsgNotSupported == <<"Validator does not support this request type">>

\* BaseValidator.validate(admission_request), admission_request a dict
BaseValidator_validate(self, request) ==
    IF ~Truthy(request) \/ ~Contains(request, "request") THEN Deny(MsgInvalidFormat)
    ELSE LET req == Get(request, "request", EmptyMap) IN
        IF ~Truthy(req) THEN Deny(MsgMissingObject)
        ELSE IF ~IsMap(req) THEN Deny(<<"argument of type '", PyType(req), "' is not iterable">>)
        ELSE IF ~Contains(req, "object") THEN Deny(MsgMissingObject)
        ELSE IF ~Validator_supports(self, request) THEN Allow(MsgNotSupported)
        ELSE Validator__validate(self, req)

\* SecurityContextValidator.validate(request), which overrides
\* BaseValidator.validate: `request.request` on a dict raises
\* AttributeError inside the try, and the except returns the denial
SecurityContextValidator_validate(self, request) ==
    ValidationResult(FALSE, JStr(AttributeError(request, "request")), JNull)

\* validator.validate(request) as the chain calls it (method resolution)
Validator_validate(self, request) ==
    IF self.class = "SecurityContextValidator"
    THEN SecurityContextValidator_validate(self, request)
    ELSE BaseValidator_validate(self, request)

----------------------------------------------------------------------------
\* ValidatorChain.validate (validators/base.py), one action per loop step

\* mutant: a denial does not end the loop
ChainStopsNever(r) == FALSE

\* `if not result.allowed: return result` (line 74)
ChainStops(r) == ~r.allowed

\* warnings.extend(result.warnings) under `if result.warnings` (lines 77-78)
ChainExtend(warns, r) == IF Truthy(r.warnings) THEN warns \o r.warnings.v ELSE warns

\* ValidationResult(allowed=True, warnings=warnings if warnings else None) (line 80)
ChainFinalResult(warns) ==
    ValidationResult(TRUE, JNull, IF warns # <<>> THEN JList(warns) ELSE JNull)

\* entry of ValidatorChain.validate: warnings = [] (line 67)
ChainEnter ==
    /\ pc = "call"
    /\ pc' = "loop"
    /\ idx' = 1
    /\ warnings' = <<>>
    /\ UNCHANGED <<validators, admission_request, result, invoked, mutation_vars, service_vars>>

\* `if not validator.supports(request): continue` (lines 70-71)
ChainSkip ==
    /\ pc = "loop"
    /\ idx <= Len(validators)
    /\ ~Validator_supports(validators[idx], admission_request)
    /\ invoked' = Append(invoked, <<idx, "supports">>)
    /\ idx' = idx + 1
    /\ UNCHANGED <<validators, admission_request, pc, warnings, result, mutation_vars, service_vars>>

\* result = validator.validate(request), the return on a denial, the
\* collection of warnings otherwise (lines 73-78)
ChainValidate ==
    /\ pc = "loop"
    /\ idx <= Len(validators)
    /\ Validator_supports(validators[idx], admission_request)
    /\ invoked' = invoked \o <<<<idx, "supports">>, <<idx, "validate">>>>
    /\ LET r == Validator_validate(validators[idx], admission_request) IN
        IF ChainStops(r)
        THEN /\ result' = r
             /\ pc' = "done"
             /\ UNCHANGED <<idx, warnings>>
        ELSE /\ warnings' = ChainExtend(warnings, r)
             /\ idx' = idx + 1
             /\ UNCHANGED <<pc, result>>
    /\ UNCHANGED <<validators, admission_request, mutation_vars, service_vars>>

\* the return after the loop (line 80)
ChainReturn ==
    /\ pc = "loop"
    /\ idx > Len(validators)
    /\ result' = ChainFinalResult(warnings)
    /\ pc' = "done"
    /\ UNCHANGED <<validators, admission_request, idx, warnings, invoked, mutation_vars, service_vars>>

\* a direct call rule._validate(request) on the inner request dict, the
\* way the unit tests of the rules call it
Call_validate ==
    /\ pc = "call"
    /\ result' = Validator__validate(validators[1], Get(admission_request, "request", EmptyMap))
    /\ invoked' = <<<<1, "_validate">>>>
    /\ pc' = "done"
    /\ UNCHANGED <<validators, admission_request, idx, warnings, mutation_vars, service_vars>>

----------------------------------------------------------------------------
\* Inputs

\* marks an optional key that is left out
Absent == [t |-> "absent"]

\* the dict entry k: v, or nothing when v is left out
Field(k, v) == IF v = Absent THEN <<>> ELSE (k :> v)

\* all sequences over S of length lo..hi
SeqsOf(S, lo, hi) == UNION {[1..n -> S] : n \in lo..hi}

ContainerName(k) == JStr(<<"container", ToString(k)>>)

\* a containers list: the k-th body gets the name container<k>
NamedContainers(bodies) ==
    JList([k \in 1..Len(bodies) |-> JMap(("name" :> ContainerName(k)) @@ bodies[k])])

\* the pod spec {containers, hostNetwork?}
PodSpec(containers, hostNetwork) ==
    JMap(("containers" :> containers) @@ Field("hostNetwork", hostNetwork))

\* the object of the given kind that carries the pod spec: a Pod has it at
\* spec, a Deployment at spec.template.spec (tests/conftest.py)
ObjectOf(kind, podSpec) ==
    IF kind = "Deployment"
    THEN JMap("spec" :> JMap(("replicas" :> JNum(1)) @@ ("template" :> JMap("spec" :> podSpec))))
    ELSE JMap("spec" :> podSpec)

\* the AdmissionReview dict {request: {uid, kind: {kind}, object?}}
AdmissionReview(kind, object) ==
    JMap("request" :> JMap(("uid" :> JStr(<<"test-uid">>))
                           @@ ("kind" :> JMap("kind" :> JStr(<<kind>>)))
                           @@ Field("object", object)))

\* containers values that are not a list of dicts
OddContainers ==
    {JNull, JNum(1), EmptyStr, JStr(<<"x">>), EmptyMap, JMap("a" :> JNull),
     JList(<<JStr(<<"x">>)>>), JList(<<JNull>>), JList(<<JMap("securityContext" :> JNull)>>)}

\* objects without a usable spec
OddObjects == {JNull, EmptyMap, JMap("metadata" :> EmptyMap), JMap("spec" :> JNull)}

SecurityContexts ==
    {Field("privileged", p) @@ Field("runAsUser", u) @@ Field("readOnlyRootFilesystem", r) :
        p \in {Absent, JBool(TRUE)}, u \in {Absent, JNum(0)}, r \in {Absent, JBool(TRUE)}}
    \cup {("privileged" :> JBool(FALSE)) @@ ("runAsUser" :> JNum(1000)) @@ ("readOnlyRootFilesystem" :> JBool(TRUE)),
          "readOnlyRootFilesystem" :> JBool(FALSE)}

SecurityBodies == {<<>>} \cup {"securityContext" :> JMap(sc) : sc \in SecurityContexts}

SecurityPodSpecs ==
    {PodSpec(c, h) : c \in {NamedContainers(b) : b \in SeqsOf(SecurityBodies, 0, MaxContainers)} \cup OddContainers,
                     h \in {Absent, JBool(TRUE), JBool(FALSE)}}

SecurityRequests ==
    {AdmissionReview(k, o) : k \in {"Pod", "Deployment"}, o \in OddObjects}
    \cup {AdmissionReview(k, ObjectOf(k, p)) : k \in {"Pod", "Deployment"}, p \in SecurityPodSpecs}

SecurityRules ==
    {SecurityContextValidator(a, b, c, d) : a \in BOOLEAN, b \in BOOLEAN, c \in BOOLEAN, d \in BOOLEAN}

Fragments == {"docker.io", "gcr.io", "app", "/", ":", "latest", "-alpine"}

\* images of the tests and of the spec's scenarios
KnownImages ==
    {<<"docker.io", "/", "app", ":", "v1">>, <<"gcr.io", "/", "app", ":", "v1">>,
     <<"app", ":", "latest">>, <<"app">>, <<>>,
     <<"docker.io", "/", "app", ":", "latest", "-alpine">>}

ImageBodies == {<<>>} \cup {"image" :> JStr(i) : i \in KnownImages}

ImagePodSpecs ==
    {PodSpec(c, Absent) :
        c \in {NamedContainers(b) : b \in SeqsOf(ImageBodies, 0, MaxContainers)}
              \cup {NamedContainers(<<"image" :> JStr(i)>>) : i \in SeqsOf(Fragments, 0, MaxImageLen)}
              \cup {NamedContainers(<<"image" :> JNull>>)}
              \cup OddContainers}

ImageRequests ==
    {AdmissionReview(k, o) : k \in {"Pod", "Deployment"}, o \in OddObjects}
    \cup {AdmissionReview(k, ObjectOf(k, p)) : k \in {"Pod", "Deployment"}, p \in ImagePodSpecs}

ImageRules ==
    {ImagePolicyValidator(a, d) :
        a \in {<<>>, <<<<"docker.io">>>>, <<<<"gcr.io">>>>, <<<<"docker.io">>, <<"gcr.io">>>>},
        d \in BOOLEAN}

FullResources ==
    JMap(("limits" :> JMap(("cpu" :> JStr(<<"1">>)) @@ ("memory" :> JStr(<<"512Mi">>))))
         @@ ("requests" :> JMap(("cpu" :> JStr(<<"100m">>)) @@ ("memory" :> JStr(<<"128Mi">>)))))

ChainBodies ==
    {("image" :> JStr(i)) @@ Field("resources", r) :
        i \in {<<"docker.io", "/", "app", ":", "v1">>, <<"gcr.io", "/", "app", ":", "v1">>},
        r \in {Absent, FullResources}}

ChainPodSpecs ==
    {PodSpec(c, Absent) :
        c \in {NamedContainers(b) : b \in SeqsOf(ChainBodies, 0, MaxContainers)} \cup {EmptyMap, JNull}}

Kinds == {"Pod", "Deployment", "Service"}

ChainRequests ==
    {AdmissionReview(k, o) : k \in Kinds, o \in {Absent, EmptyMap}}
    \cup {AdmissionReview(k, ObjectOf(k, p)) : k \in Kinds, p \in ChainPodSpecs}
    \cup {EmptyMap, JMap("request" :> JMap("uid" :> JStr(<<"test-uid">>)))}

ChainRules ==
    {DefaultSecurityContextValidator,
     ImagePolicyValidator(<<<<"docker.io">>>>, TRUE),
     ImagePolicyValidator(<<<<"docker.io">>, <<"gcr.io">>>>, FALSE),
     ResourceRequirementsValidator(TRUE),
     ResourceRequirementsValidator(FALSE)}

\* limits / requests dicts: any subset of the keys cpu, memory
ResourceMaps ==
    {Field("cpu", c) @@ Field("memory", m) :
        c \in {Absent, JStr(<<"100m">>)}, m \in {Absent, JStr(<<"128Mi">>)}} \ {<<>>}

\* resources dicts: limits and requests each left out or one of the above
ResourceBlocks ==
    {Field("limits", l) @@ Field("requests", r) :
        l \in {Absent} \cup {JMap(x) : x \in ResourceMaps},
        r \in {Absent} \cup {JMap(x) : x \in ResourceMaps}}

ResourceBodies ==
    {<<>>} \cup {"resources" :> JMap(b) : b \in ResourceBlocks}
           \cup {"resources" :> JNull, "resources" :> JMap("limits" :> JNull)}

ResourcePodSpecs ==
    {PodSpec(c, Absent) :
        c \in {NamedContainers(b) : b \in SeqsOf(ResourceBodies, 0, MaxContainers)} \cup OddContainers}

ResourceRequests ==
    {AdmissionReview(k, o) : k \in {"Pod", "Deployment"}, o \in OddObjects}
    \cup {AdmissionReview(k, ObjectOf(k, p)) : k \in {"Pod", "Deployment"}, p \in ResourcePodSpecs}

ResourceRules == {ResourceRequirementsValidator(e) : e \in BOOLEAN}

WarningTexts == {JStr(<<"w1">>), JStr(<<"w2">>)}

\* rules that return warnings, next to a rule of the repository
WarningRules ==
    {RuleReturning(ValidationResult(TRUE, JNull, w)) :
        w \in {JNull} \cup {JList(<<t>>) : t \in WarningTexts}}
    \cup {RuleReturning(ValidationResult(FALSE, JStr(<<"denied">>), JNull)),
          ImagePolicyValidator(<<<<"docker.io">>>>, TRUE)}

WarningRequests ==
    {AdmissionReview(k, ObjectOf(k, PodSpec(NamedContainers(<<"image" :> JStr(i)>>), Absent))) :
        k \in {"Pod", "Service"},
        i \in {<<"docker.io", "/", "app", ":", "v1">>, <<"gcr.io", "/", "app", ":", "v1">>}}

----------------------------------------------------------------------------
\* Specifications

InitLocals ==
    /\ pc = "call"
    /\ idx = 0
    /\ warnings = <<>>
    /\ result = NoResult
    /\ invoked = <<>>
    /\ mutators = <<>>
    /\ all_patches = <<>>
    /\ submitted = JNull
    /\ calls = 0
    /\ ServiceIdle

\* a ValidatorChain of 1..MaxRules rules and one request
Init ==
    /\ validators \in SeqsOf(ChainRules, 1, MaxRules)
    /\ admission_request \in ChainRequests
    /\ InitLocals

Next == ChainEnter \/ ChainSkip \/ ChainValidate \/ ChainReturn

Spec == Init /\ [][Next]_vars

\* one SecurityContextValidator, its _validate called on one request
InitSecurity ==
    /\ validators \in {<<r>> : r \in SecurityRules}
    /\ admission_request \in SecurityRequests
    /\ InitLocals

NextSecurity == Call_validate

SpecSecurity == InitSecurity /\ [][NextSecurity]_vars

\* one ImagePolicyValidator, its _validate called on one request
InitImage ==
    /\ validators \in {<<r>> : r \in ImageRules}
    /\ admission_request \in ImageRequests
    /\ InitLocals

NextImage == Call_validate

SpecImage == InitImage /\ [][NextImage]_vars

\* one ResourceRequirementsValidator, its _validate called on one request
InitResource ==
    /\ validators \in {<<r>> : r \in ResourceRules}
    /\ admission_request \in ResourceRequests
    /\ InitLocals

NextResource == Call_validate

SpecResource == InitResource /\ [][NextResource]_vars

\* a ValidatorChain whose rules may return warnings
InitWarnings ==
    /\ validators \in SeqsOf(WarningRules, 1, MaxRules)
    /\ admission_request \in WarningRequests
    /\ InitLocals

NextWarnings == ChainEnter \/ ChainSkip \/ ChainValidate \/ ChainReturn

SpecWarnings == InitWarnings /\ [][NextWarnings]_vars

----------------------------------------------------------------------------
\* MutationResult and the Python operations the mutators use
\* (mutators/base.py, mutators/defaults.py)

\* a pydantic model object: its fields are read as attributes
JModel(f) == [t |-> "model", v |-> f]

\* d[k] = v on a dict d
Put(d, k, v) == JMap((k :> v) @@ d.v)

\* d.update(defaults) on a dict d: the keys of defaults win
Updated(d, defaults) == JMap(defaults.v @@ d.v)

\* str(e) of the TypeError raised by x[k] = v when x is not a dict
ItemAssignmentError(x) ==
    IF x.t = "list" THEN <<"list indices must be integers or slices, not str">>
    ELSE <<"'", PyType(x), "' object does not support item assignment">>

\* str(e) of the TypeError raised by `k in x` when x is no container
NotContainerError(x) == <<"argument of type '", PyType(x), "' is not iterable">>

\* str(e) of the KeyError raised by d[k]
KeyError(k) == <<"'", k, "'">>

MutationResult(mutated, patched, message) ==
    [mutated |-> mutated, patched |-> patched, message |-> message]

\* MutationResult(mutated=True, patched=obj)
Mutated(obj) == MutationResult(TRUE, obj, JNull)

\* MutationResult(mutated=False): the kind is not Pod or Deployment
NotMutated == MutationResult(FALSE, JNull, JNull)

\* MutationResult(mutated=False, message=str(e))
Failed(text) == MutationResult(FALSE, JNull, JStr(text))

\* what a call of mutate leaves behind: the request's object after the
\* edits made in place, and the returned MutationResult
Outcome(obj, res) == [object |-> obj, result |-> res]

\* request.request.kind.kind not in ["Pod", "Deployment"]
MutatorKindSupported(kind) == kind \in {JStr(<<"Pod">>), JStr(<<"Deployment">>)}

\* mutant: a Deployment is handled like a Pod
IsDeploymentNever(kind) == FALSE

IsDeployment(kind) == kind = JStr(<<"Deployment">>)

\* x or {}
OrEmpty(x) == IF Truthy(x) THEN x ELSE EmptyMap

\* the entry k: v of a dict literal that is added under `if v is not None`
IfSet(k, v) == IF v # JNull THEN (k :> v) ELSE <<>>

\* the entry k: v of a dict literal that is added under `if v`
IfTruthy(k, v) == IF Truthy(v) THEN (k :> v) ELSE <<>>

----------------------------------------------------------------------------
\* DefaultLabelsAnnotationsMutator (mutators/defaults.py)

DefaultLabelsAnnotationsMutator(default_labels, default_annotations) ==
    [class |-> "DefaultLabelsAnnotationsMutator",
     default_labels |-> OrEmpty(default_labels),
     default_annotations |-> OrEmpty(default_annotations)]

\* mutant: existing keys win over the configured defaults
MergeOneKeepExisting(metadata, key, defaults) ==
    IF ~Truthy(defaults) THEN [value |-> metadata, error |-> JNull]
    ELSE IF ~IsMap(metadata) THEN [value |-> metadata, error |-> JStr(AttributeError(metadata, "get"))]
    ELSE LET current == Get(metadata, key, EmptyMap) IN
        IF ~IsMap(current) THEN [value |-> metadata, error |-> JStr(AttributeError(current, "update"))]
        ELSE [value |-> Put(metadata, key, Updated(defaults, current)), error |-> JNull]

\* `if defaults: x = metadata.get(key, {}); x.update(defaults);
\* metadata[key] = x` (lines 23-26, 29-32, 41-44, 46-49): the metadata
\* after the step and the error raised, if any
MergeOne(metadata, key, defaults) ==
    IF ~Truthy(defaults) THEN [value |-> metadata, error |-> JNull]
    ELSE IF ~IsMap(metadata) THEN [value |-> metadata, error |-> JStr(AttributeError(metadata, "get"))]
    ELSE LET current == Get(metadata, key, EmptyMap) IN
        IF ~IsMap(current) THEN [value |-> metadata, error |-> JStr(AttributeError(current, "update"))]
        ELSE [value |-> Put(metadata, key, Updated(current, defaults)), error |-> JNull]

\* the labels step, then the annotations step, on one metadata dict
MergeDefaults(self, metadata) ==
    LET labelled == MergeOne(metadata, "labels", self.default_labels) IN
    IF labelled.error # JNull THEN labelled
    ELSE MergeOne(labelled.value, "annotations", self.default_annotations)

\* obj with obj["spec"]["template"]["metadata"] replaced
WithTemplateMetadata(obj, metadata) ==
    Put(obj, "spec", Put(obj.v["spec"], "template", Put(obj.v["spec"].v["template"], "metadata", metadata)))

\* the Deployment part of mutate (lines 37-52), on the object that already
\* carries its merged metadata
LabelsTemplate(self, obj) ==
    LET spec == Get(obj, "spec", EmptyMap) IN
    IF ~IsMap(spec) THEN Outcome(obj, Failed(AttributeError(spec, "get")))
    ELSE LET template == Get(spec, "template", EmptyMap) IN
        IF ~IsMap(template) THEN Outcome(obj, Failed(AttributeError(template, "get")))
        ELSE LET merged == MergeDefaults(self, Get(template, "metadata", EmptyMap))
                 attached == Contains(obj, "spec") /\ Contains(spec, "template") /\ Contains(template, "metadata") IN
            IF merged.error # JNull
            THEN Outcome(IF attached THEN WithTemplateMetadata(obj, merged.value) ELSE obj, Failed(merged.error.v))
            ELSE IF ~Contains(obj, "spec") THEN Outcome(obj, Failed(KeyError("spec")))
            ELSE LET patched == Put(obj, "spec", Put(spec, "template", Put(template, "metadata", merged.value))) IN
                Outcome(patched, Mutated(patched))

\* DefaultLabelsAnnotationsMutator.mutate, from the kind test on
DefaultLabelsAnnotationsMutator_mutate(self, kind, obj) ==
    IF ~MutatorKindSupported(kind) THEN Outcome(obj, NotMutated)
    ELSE LET merged == MergeDefaults(self, Get(obj, "metadata", EmptyMap)) IN
        IF merged.error # JNull
        THEN Outcome(IF Contains(obj, "metadata") THEN Put(obj, "metadata", merged.value) ELSE obj,
                     Failed(merged.error.v))
        ELSE LET labelled == Put(obj, "metadata", merged.value) IN
            IF IsDeployment(kind) THEN LabelsTemplate(self, labelled)
            ELSE Outcome(labelled, Mutated(labelled))

----------------------------------------------------------------------------
\* The pod spec as the security context and resources mutators reach it

\* pod_spec = obj.get("spec", {}), and for a Deployment
\* pod_spec.get("template", {}).get("spec", {}) (lines 113-116, 163-166);
\* attached tells whether pod_spec is the dict held by the object or a
\* fresh default
LocatePodSpec(kind, obj) ==
    LET spec == Get(obj, "spec", EmptyMap) IN
    IF ~IsDeployment(kind)
    THEN [error |-> JNull, pod_spec |-> spec, attached |-> Contains(obj, "spec")]
    ELSE IF ~IsMap(spec)
    THEN [error |-> JStr(AttributeError(spec, "get")), pod_spec |-> JNull, attached |-> FALSE]
    ELSE LET template == Get(spec, "template", EmptyMap) IN
        IF ~IsMap(template)
        THEN [error |-> JStr(AttributeError(template, "get")), pod_spec |-> JNull, attached |-> FALSE]
        ELSE [error |-> JNull,
              pod_spec |-> Get(template, "spec", EmptyMap),
              attached |-> Contains(obj, "spec") /\ Contains(spec, "template") /\ Contains(template, "spec")]

\* obj with the located pod spec replaced
WithPodSpec(kind, obj, pod_spec) ==
    IF IsDeployment(kind)
    THEN Put(obj, "spec", Put(obj.v["spec"], "template", Put(obj.v["spec"].v["template"], "spec", pod_spec)))
    ELSE Put(obj, "spec", pod_spec)

\* the object as the edits made in place on pod_spec leave it
EditedInPlace(kind, obj, located, pod_spec) ==
    IF located.attached THEN WithPodSpec(kind, obj, pod_spec) ELSE obj

\* obj["spec"] = pod_spec, and for a Deployment
\* obj["spec"]["template"]["spec"] = pod_spec (lines 126-129, 174-177)
StorePodSpec(kind, obj, pod_spec) ==
    IF ~IsDeployment(kind) THEN [error |-> JNull, object |-> Put(obj, "spec", pod_spec)]
    ELSE IF ~Contains(obj, "spec") THEN [error |-> JStr(KeyError("spec")), object |-> obj]
    ELSE IF ~Contains(obj.v["spec"], "template") THEN [error |-> JStr(KeyError("template")), object |-> obj]
    ELSE [error |-> JNull, object |-> WithPodSpec(kind, obj, pod_spec)]

\* the containers value after the loop edited its items in place
EditedContainers(pod_spec, containers, items) ==
    IF containers.t = "list" /\ Contains(pod_spec, "containers")
    THEN Put(pod_spec, "containers", JList(items))
    ELSE pod_spec

----------------------------------------------------------------------------
\* DefaultSecurityContextMutator (mutators/defaults.py)

DefaultSecurityContextMutator(run_as_non_root, read_only_root_filesystem, run_as_user, run_as_group, fs_group) ==
    [class |-> "DefaultSecurityContextMutator",
     run_as_non_root |-> run_as_non_root,
     read_only_root_filesystem |-> read_only_root_filesystem,
     run_as_user |-> run_as_user,
     run_as_group |-> run_as_group,
     fs_group |-> fs_group]

get_default_container_security_context(self) ==
    JMap(("runAsNonRoot" :> JBool(self.run_as_non_root))
         @@ ("readOnlyRootFilesystem" :> JBool(self.read_only_root_filesystem))
         @@ ("allowPrivilegeEscalation" :> JBool(FALSE))
         @@ IfSet("runAsUser", self.run_as_user)
         @@ IfSet("runAsGroup", self.run_as_group))

get_default_pod_security_context(self) ==
    JMap(("runAsNonRoot" :> JBool(self.run_as_non_root))
         @@ IfSet("runAsUser", self.run_as_user)
         @@ IfSet("runAsGroup", self.run_as_group)
         @@ IfSet("fsGroup", self.fs_group))

\* mutant: the defaults are merged into the container's own securityContext
ContainerSecurityContextMerged(self, container) ==
    Put(container, "securityContext",
        IF IsMap(Get(container, "securityContext", EmptyMap))
        THEN Updated(Get(container, "securityContext", EmptyMap), get_default_container_security_context(self))
        ELSE get_default_container_security_context(self))

\* container["securityContext"] = self.get_default_container_security_context()
ContainerSecurityContext(self, container) ==
    Put(container, "securityContext", get_default_container_security_context(self))

\* `for container in containers` from item k on (lines 123-124): the items
\* after the edits and the error raised, if any
RECURSIVE SecurityContextLoop(_, _, _)
SecurityContextLoop(self, items, k) ==
    IF k > Len(items) THEN [items |-> items, error |-> JNull]
    ELSE IF ~IsMap(items[k]) THEN [items |-> items, error |-> JStr(ItemAssignmentError(items[k]))]
    ELSE SecurityContextLoop(self, [items EXCEPT ![k] = ContainerSecurityContext(self, items[k])], k + 1)

\* DefaultSecurityContextMutator.mutate, from the kind test on
DefaultSecurityContextMutator_mutate(self, kind, obj) ==
    IF ~MutatorKindSupported(kind) THEN Outcome(obj, NotMutated)
    ELSE LET located == LocatePodSpec(kind, obj) IN
        IF located.error # JNull THEN Outcome(obj, Failed(located.error.v))
        ELSE IF ~IsMap(located.pod_spec) THEN Outcome(obj, Failed(ItemAssignmentError(located.pod_spec)))
        ELSE LET pod_spec == Put(located.pod_spec, "securityContext", get_default_pod_security_context(self))
                 containers == Get(pod_spec, "containers", EmptyList) IN
            IF ~Iterable(containers)
            THEN Outcome(EditedInPlace(kind, obj, located, pod_spec), Failed(NotIterableError(containers)))
            ELSE LET loop == SecurityContextLoop(self, Items(containers), 1)
                     edited == EditedContainers(pod_spec, containers, loop.items) IN
                IF loop.error # JNull
                THEN Outcome(EditedInPlace(kind, obj, located, edited), Failed(loop.error.v))
                ELSE LET stored == StorePodSpec(kind, obj, edited) IN
                    IF stored.error # JNull THEN Outcome(obj, Failed(stored.error.v))
                    ELSE Outcome(stored.object, Mutated(stored.object))

----------------------------------------------------------------------------
\* DefaultResourcesMutator (mutators/defaults.py)

DefaultResourcesMutator(default_requests, default_limits) ==
    [class |-> "DefaultResourcesMutator",
     default_requests |-> OrEmpty(default_requests),
     default_limits |-> OrEmpty(default_limits)]

get_default_resources(self) ==
    JMap(IfTruthy("requests", self.default_requests) @@ IfTruthy("limits", self.default_limits))

\* mutant: an empty or null resources entry is filled as well
NeedsResourcesWhenEmpty(container) == ~Truthy(Get(container, "resources", JNull))

\* "resources" not in container, for a dict container (line 171)
NeedsResources(container) == ~Contains(container, "resources")

\* `for container in containers` from item k on (lines 170-172); a str or
\* list item does not contain "resources" in the modelled inputs
RECURSIVE ResourcesLoop(_, _, _)
ResourcesLoop(self, items, k) ==
    IF k > Len(items) THEN [items |-> items, error |-> JNull]
    ELSE IF items[k].t \in {"null", "num", "bool"}
    THEN [items |-> items, error |-> JStr(NotContainerError(items[k]))]
    ELSE IF ~IsMap(items[k]) THEN [items |-> items, error |-> JStr(ItemAssignmentError(items[k]))]
    ELSE IF NeedsResources(items[k])
    THEN ResourcesLoop(self, [items EXCEPT ![k] = Put(items[k], "resources", get_default_resources(self))], k + 1)
    ELSE ResourcesLoop(self, items, k + 1)

\* DefaultResourcesMutator.mutate, from the kind test on
DefaultResourcesMutator_mutate(self, kind, obj) ==
    IF ~MutatorKindSupported(kind) THEN Outcome(obj, NotMutated)
    ELSE LET located == LocatePodSpec(kind, obj) IN
        IF located.error # JNull THEN Outcome(obj, Failed(located.error.v))
        ELSE IF ~IsMap(located.pod_spec) THEN Outcome(obj, Failed(AttributeError(located.pod_spec, "get")))
        ELSE LET pod_spec == located.pod_spec
                 containers == Get(pod_spec, "containers", EmptyList) IN
            IF ~Iterable(containers) THEN Outcome(obj, Failed(NotIterableError(containers)))
            ELSE LET loop == ResourcesLoop(self, Items(containers), 1)
                     edited == EditedContainers(pod_spec, containers, loop.items) IN
                IF loop.error # JNull
                THEN Outcome(EditedInPlace(kind, obj, located, edited), Failed(loop.error.v))
                ELSE LET stored == StorePodSpec(kind, obj, edited) IN
                    IF stored.error # JNull THEN Outcome(obj, Failed(stored.error.v))
                    ELSE Outcome(stored.object, Mutated(stored.object))

----------------------------------------------------------------------------
\* mutator.mutate(request) and MutatorChain.mutate (mutators/base.py)

\* the body of mutate after request.request.kind.kind was read
MutatorBody(self, kind, obj) ==
    CASE self.class = "DefaultLabelsAnnotationsMutator" -> DefaultLabelsAnnotationsMutator_mutate(self, kind, obj)
      [] self.class = "DefaultSecurityContextMutator" -> DefaultSecurityContextMutator_mutate(self, kind, obj)
      [] self.class = "DefaultResourcesMutator" -> DefaultResourcesMutator_mutate(self, kind, obj)

\* the object of a request, whatever holds it
ObjectIn(request) ==
    IF request.t = "model" THEN request.v["request"].v["object"]
    ELSE Get(Get(request, "request", EmptyMap), "object", JNull)

\* mutant: the edits are made on a copy that is thrown away
WithObjectDiscarded(request, obj) == request

\* the request with request.request.object replaced
WithObject(request, obj) ==
    JModel([request.v EXCEPT !["request"] = JModel([request.v["request"].v EXCEPT !["object"] = obj])])

\* mutator.mutate(request): request.request.kind.kind is read by attribute
\* access, which raises AttributeError on a dict; the except clause of
\* every mutate turns it into MutationResult(mutated=False, message=str(e))
Mutator_mutate(self, request) ==
    IF request.t # "model"
    THEN [request |-> request, result |-> Failed(AttributeError(request, "request"))]
    ELSE IF request.v["request"].t # "model"
    THEN [request |-> request, result |-> Failed(AttributeError(request.v["request"], "kind"))]
    ELSE IF request.v["request"].v["kind"].t # "model"
    THEN [request |-> request, result |-> Failed(AttributeError(request.v["request"].v["kind"], "kind"))]
    ELSE LET outcome == MutatorBody(self, request.v["request"].v["kind"].v["kind"], request.v["request"].v["object"]) IN
        [request |-> WithObject(request, outcome.object), result |-> outcome.result]

\* BaseMutator.supports, which no mutator overrides (line 46)
Mutator_supports(self, request) == TRUE

\* no MutationResult yet
NoMutationResult == [none |-> TRUE]

\* the exception that leaves the call
Raised(exception) == [raised |-> exception]

\* mutant: a result that is not mutated does not end the loop
MutatorChainStopsNever(r) == FALSE

\* `if not result.mutated: return result` (lines 84-85)
MutatorChainStops(r) == ~r.mutated

\* `if result.patched: all_patches.append(result.patched)` (lines 87-88)
MutatorChainCollect(patches, r) == IF Truthy(r.patched) THEN Append(patches, r.patched) ELSE patches

\* entry of MutatorChain.mutate: all_patches = [] (line 77)
MutatorChainEnter ==
    /\ pc = "call"
    /\ pc' = "loop"
    /\ idx' = 1
    /\ all_patches' = <<>>
    /\ calls' = calls + 1
    /\ UNCHANGED <<validators, mutators, admission_request, warnings, result, invoked, submitted, service_vars>>

\* one iteration of `for mutator in self.mutators` (lines 79-88)
MutatorChainMutate ==
    /\ pc = "loop"
    /\ idx <= Len(mutators)
    /\ IF ~Mutator_supports(mutators[idx], admission_request)
       THEN /\ invoked' = Append(invoked, <<idx, "supports">>)
            /\ idx' = idx + 1
            /\ UNCHANGED <<admission_request, pc, all_patches, result>>
       ELSE LET outcome == Mutator_mutate(mutators[idx], admission_request) IN
            /\ invoked' = invoked \o <<<<idx, "supports">>, <<idx, "mutate">>>>
            /\ admission_request' = outcome.request
            /\ IF MutatorChainStops(outcome.result)
               THEN /\ result' = outcome.result
                    /\ pc' = "done"
                    /\ UNCHANGED <<idx, all_patches>>
               ELSE /\ all_patches' = MutatorChainCollect(all_patches, outcome.result)
                    /\ idx' = idx + 1
                    /\ UNCHANGED <<pc, result>>
    /\ UNCHANGED <<validators, mutators, warnings, submitted, calls, service_vars>>

\* the return after the loop (line 90): MutationResult declares patched as
\* Optional[Dict[str, Any]], so pydantic (>= 2.4.2, setup.py) rejects the
\* list all_patches with a ValidationError, which leaves mutate uncaught
MutatorChainReturn ==
    /\ pc = "loop"
    /\ idx > Len(mutators)
    /\ IF all_patches = <<>>
       THEN /\ result' = MutationResult(TRUE, JNull, JNull)
            /\ pc' = "done"
       ELSE /\ result' = Raised("ValidationError")
            /\ pc' = "raised"
    /\ UNCHANGED <<validators, mutators, admission_request, idx, warnings, all_patches, invoked, submitted, calls, service_vars>>

\* a further call of MutatorChain.mutate on the same request, whose object
\* is the one the previous call left: that object is what this call is given
MutatorChainCallAgain ==
    /\ pc \in {"done", "raised"}
    /\ calls < MaxCalls
    /\ pc' = "call"
    /\ idx' = 0
    /\ result' = NoMutationResult
    /\ invoked' = <<>>
    /\ submitted' = ObjectIn(admission_request)
    /\ UNCHANGED <<validators, mutators, admission_request, warnings, all_patches, calls, service_vars>>

\* a direct call mutator.mutate(request), the way the unit tests of the
\* mutators call it
Call_mutate ==
    /\ pc = "call"
    /\ LET outcome == Mutator_mutate(mutators[1], admission_request) IN
        /\ admission_request' = outcome.request
        /\ result' = outcome.result
    /\ invoked' = <<<<1, "mutate">>>>
    /\ pc' = "done"
    /\ calls' = calls + 1
    /\ UNCHANGED <<validators, mutators, idx, warnings, all_patches, submitted, service_vars>>

----------------------------------------------------------------------------
\* Inputs of the mutators

\* AdmissionReview(request=AdmissionRequest(uid=..., kind=GroupVersionKind(
\* kind=...), object=...)) as tests/test_mutators.py builds it
ReviewModel(kind, object) ==
    JModel("request" :> JModel(("uid" :> JStr(<<"test-uid">>))
                               @@ ("kind" :> JModel("kind" :> JStr(<<kind>>)))
                               @@ ("object" :> object)))

\* the same review with kind held as Dict[str, str], the type
\* AdmissionRequest declares
ReviewModelDictKind(kind, object) ==
    JModel("request" :> JModel(("uid" :> JStr(<<"test-uid">>))
                               @@ ("kind" :> JMap("kind" :> JStr(<<kind>>)))
                               @@ ("object" :> object)))

DefaultLabels == JMap("app" :> JStr(<<"webhook">>))
DefaultAnnotations == JMap("owner" :> JStr(<<"test-user">>))
DefaultRequests == JMap(("cpu" :> JStr(<<"100m">>)) @@ ("memory" :> JStr(<<"128Mi">>)))
DefaultLimits == JMap(("cpu" :> JStr(<<"1">>)) @@ ("memory" :> JStr(<<"512Mi">>)))

LabelsMutators ==
    {DefaultLabelsAnnotationsMutator(l, a) : l \in {JNull, DefaultLabels}, a \in {JNull, DefaultAnnotations}}

SecurityContextMutators ==
    {DefaultSecurityContextMutator(TRUE, TRUE, JNull, JNull, JNull),
     DefaultSecurityContextMutator(TRUE, TRUE, JNum(1000), JNum(2000), JNum(3000)),
     DefaultSecurityContextMutator(FALSE, FALSE, JNum(1000), JNull, JNull)}

ResourcesMutators ==
    {DefaultResourcesMutator(r, l) : r \in {JNull, DefaultRequests}, l \in {JNull, DefaultLimits}}

\* metadata values: left out, empty, with labels and annotations of the
\* submitter, and shapes that are no dict
Metadatas ==
    {Absent, EmptyMap,
     JMap("labels" :> JMap(("app" :> JStr(<<"mine">>)) @@ ("team" :> JStr(<<"a">>)))),
     JMap(("labels" :> JMap("team" :> JStr(<<"a">>)))
          @@ ("annotations" :> JMap(("owner" :> JStr(<<"me">>)) @@ ("note" :> JStr(<<"n">>))))),
     JMap(("labels" :> JMap("team" :> JStr(<<"a">>))) @@ ("annotations" :> JNull)),
     JNull}

TemplateMetadatas ==
    {Absent,
     JMap("labels" :> JMap(("app" :> JStr(<<"mine">>)) @@ ("team" :> JStr(<<"a">>)))),
     JMap(("labels" :> JMap("team" :> JStr(<<"a">>))) @@ ("annotations" :> JNum(3)))}

SubmittedSecurityContext ==
    JMap(("privileged" :> JBool(TRUE)) @@ ("runAsUser" :> JNum(0))
         @@ ("capabilities" :> JMap("add" :> JList(<<JStr(<<"SYS_ADMIN">>)>>))))

MutatorBodies ==
    {<<>>,
     "securityContext" :> SubmittedSecurityContext,
     "resources" :> EmptyMap,
     "resources" :> JMap("limits" :> JMap("cpu" :> JStr(<<"2">>))),
     ("securityContext" :> JMap("runAsNonRoot" :> JBool(FALSE))) @@ ("resources" :> JNull)}

\* containers values that are not a list of dicts
OddMutatorContainers ==
    {Absent, JNull, EmptyStr, JStr(<<"x">>), JList(<<JMap("name" :> JStr(<<"a">>)), JNull>>),
     JList(<<JMap("name" :> JStr(<<"a">>)), JStr(<<"x">>)>>)}

\* the pod spec {containers?, securityContext?}
MutatorPodSpec(containers, securityContext) ==
    JMap(Field("containers", containers) @@ Field("securityContext", securityContext))

MutatorPodSpecs ==
    {MutatorPodSpec(c, s) :
        c \in {NamedContainers(b) : b \in SeqsOf(MutatorBodies, 0, MaxContainers)} \cup OddMutatorContainers,
        s \in {Absent, JMap(("runAsUser" :> JNum(0)) @@ ("seLinuxOptions" :> EmptyMap))}}

PodObjects ==
    {JMap(Field("metadata", m) @@ Field("spec", p)) :
        m \in Metadatas, p \in MutatorPodSpecs \cup {Absent, JNull, JNum(3)}}

\* Deployments that hold a pod template
DeploymentObjects ==
    {JMap(Field("metadata", m)
          @@ ("spec" :> JMap(("replicas" :> JNum(1))
                             @@ ("template" :> JMap(Field("metadata", t) @@ Field("spec", p)))))) :
        m \in {Absent, JMap("labels" :> JMap(("app" :> JStr(<<"mine">>)) @@ ("team" :> JStr(<<"a">>))))},
        t \in TemplateMetadatas,
        p \in MutatorPodSpecs \cup {Absent, JNull}}

\* Deployments without a usable template
OddDeploymentObjects ==
    {EmptyMap, JMap("metadata" :> EmptyMap), JMap("spec" :> JNull), JMap("spec" :> EmptyMap),
     JMap(("metadata" :> EmptyMap) @@ ("spec" :> JMap("template" :> JNull))),
     JMap("spec" :> JMap("template" :> EmptyMap))}

MutatorRequests ==
    {ReviewModel("Pod", o) : o \in PodObjects}
    \cup {ReviewModel("Deployment", o) : o \in DeploymentObjects \cup OddDeploymentObjects}
    \cup {ReviewModel("Service", o) : o \in {EmptyMap, JMap("metadata" :> EmptyMap)}}
    \cup {ReviewModelDictKind("Pod", JMap("metadata" :> EmptyMap)),
          AdmissionReview("Pod", JMap("metadata" :> EmptyMap))}

\* chains of the mutators /mutate registers, in any order
ChainMutators ==
    {DefaultLabelsAnnotationsMutator(DefaultLabels, DefaultAnnotations),
     DefaultSecurityContextMutator(TRUE, TRUE, JNull, JNull, JNull),
     DefaultResourcesMutator(DefaultRequests, DefaultLimits),
     DefaultResourcesMutator(JNull, JNull)}

\* a container that already carries every default of ChainMutators
CompliantBody ==
    ("securityContext" :> JMap(("runAsNonRoot" :> JBool(TRUE))
                               @@ ("readOnlyRootFilesystem" :> JBool(TRUE))
                               @@ ("allowPrivilegeEscalation" :> JBool(FALSE))))
    @@ ("resources" :> JMap(("requests" :> DefaultRequests) @@ ("limits" :> DefaultLimits)))

CompliantMetadata == JMap(("labels" :> DefaultLabels) @@ ("annotations" :> DefaultAnnotations))

ChainPodObjects ==
    {JMap(Field("metadata", m) @@ Field("spec", p)) :
        m \in {Absent, EmptyMap, CompliantMetadata, JNull},
        p \in {Absent, JNull,
               MutatorPodSpec(NamedContainers(<<<<>>>>), Absent),
               MutatorPodSpec(NamedContainers(<<CompliantBody>>), JMap("runAsNonRoot" :> JBool(TRUE))),
               MutatorPodSpec(NamedContainers(<<"resources" :> EmptyMap, <<>>>>), Absent),
               MutatorPodSpec(JList(<<JMap("name" :> JStr(<<"a">>)), JNull>>), Absent)}}

ChainDeploymentObjects ==
    {EmptyMap,
     JMap(("metadata" :> EmptyMap)
          @@ ("spec" :> JMap("template" :> JMap(("metadata" :> EmptyMap)
                                                 @@ ("spec" :> MutatorPodSpec(NamedContainers(<<<<>>>>), Absent)))))),
     JMap(("metadata" :> CompliantMetadata)
          @@ ("spec" :> JMap("template" :> JMap(("metadata" :> CompliantMetadata)
                                                 @@ ("spec" :> MutatorPodSpec(NamedContainers(<<CompliantBody>>),
                                                                              JMap("runAsNonRoot" :> JBool(TRUE)))))))),
     JMap(("metadata" :> EmptyMap) @@ ("spec" :> JMap("replicas" :> JNum(1))))}

MutationRequests ==
    {ReviewModel("Pod", o) : o \in ChainPodObjects}
    \cup {ReviewModel("Deployment", o) : o \in ChainDeploymentObjects}
    \cup {ReviewModel("Service", o) : o \in {EmptyMap, JMap("metadata" :> EmptyMap)}}
    \cup {ReviewModelDictKind("Pod", JMap("metadata" :> EmptyMap)),
          AdmissionReview("Pod", JMap("metadata" :> EmptyMap))}

----------------------------------------------------------------------------
\* Specifications of the mutation pipeline

InitMutationLocals ==
    /\ validators = <<>>
    /\ pc = "call"
    /\ idx = 0
    /\ warnings = <<>>
    /\ all_patches = <<>>
    /\ result = NoMutationResult
    /\ invoked = <<>>
    /\ submitted = ObjectIn(admission_request)
    /\ calls = 0
    /\ ServiceIdle

\* one mutator, its mutate called on one request
InitMutator ==
    /\ mutators \in {<<m>> : m \in LabelsMutators \cup SecurityContextMutators \cup ResourcesMutators}
    /\ admission_request \in MutatorRequests
    /\ InitMutationLocals

NextMutator == Call_mutate

SpecMutator == InitMutator /\ [][NextMutator]_vars

\* a MutatorChain of 1..MaxMutators mutators, called up to MaxCalls times
\* on one request
InitMutation ==
    /\ mutators \in SeqsOf(ChainMutators, 1, MaxMutators)
    /\ admission_request \in MutationRequests
    /\ InitMutationLocals

NextMutation == MutatorChainEnter \/ MutatorChainMutate \/ MutatorChainReturn \/ MutatorChainCallAgain

SpecMutation == InitMutation /\ [][NextMutation]_vars

----------------------------------------------------------------------------
\* The chains as one whole call: what validator_chain.validate(request) and
\* mutator_chain.mutate(request) return (validators/base.py 67-80,
\* mutators/base.py 77-90)

RECURSIVE ValidatorChainLoop(_, _, _, _)
ValidatorChainLoop(rules, request, i, warns) ==
    IF i > Len(rules) THEN ChainFinalResult(warns)
    ELSE IF ~Validator_supports(rules[i], request) THEN ValidatorChainLoop(rules, request, i + 1, warns)
    ELSE LET r == Validator_validate(rules[i], request) IN
        IF ChainStops(r) THEN r ELSE ValidatorChainLoop(rules, request, i + 1, ChainExtend(warns, r))

ValidatorChain_validate(rules, request) == ValidatorChainLoop(rules, request, 1, <<>>)

\* the request as the call leaves it, and the MutationResult returned or
\* the exception raised
RECURSIVE MutatorChainLoop(_, _, _, _)

\* the rest of the loop once mutator i has returned
MutatorChainAfter(chain, i, patches, outcome) ==
    IF MutatorChainStops(outcome.result)
    THEN [request |-> outcome.request, result |-> outcome.result]
    ELSE MutatorChainLoop(chain, outcome.request, i + 1, MutatorChainCollect(patches, outcome.result))

MutatorChainLoop(chain, request, i, patches) ==
    IF i > Len(chain)
    THEN [request |-> request,
          result |-> IF patches = <<>> THEN MutationResult(TRUE, JNull, JNull) ELSE Raised("ValidationError")]
    ELSE IF ~Mutator_supports(chain[i], request) THEN MutatorChainLoop(chain, request, i + 1, patches)
    ELSE MutatorChainAfter(chain, i, patches, Mutator_mutate(chain[i], request))

MutatorChain_mutate(chain, request) == MutatorChainLoop(chain, request, 1, <<>>)

----------------------------------------------------------------------------
\* The endpoints /validate and /mutate (app/main.py)

\* review.dict(): the model and its sub-models as plain dicts
RECURSIVE ModelDict(_)
ModelDict(x) == IF x.t = "model" THEN JMap([k \in DOMAIN x.v |-> ModelDict(x.v[k])]) ELSE x

\* the settings of WebhookConfig that the endpoints read and that the class
\* declares (app/config.py 24-27)
WebhookConfig(enforce_non_root, enforce_readonly_root, enforce_privileged, enforce_host_network) ==
    [ENFORCE_NON_ROOT |-> enforce_non_root,
     ENFORCE_READONLY_ROOT |-> enforce_readonly_root,
     ENFORCE_PRIVILEGED |-> enforce_privileged,
     ENFORCE_HOST_NETWORK |-> enforce_host_network]

\* the attributes of config that /mutate reads, in the order it reads them
\* (lines 171-183)
MutateConfigReads ==
    <<"DEFAULT_LABELS", "DEFAULT_ANNOTATIONS", "ENFORCE_NON_ROOT", "ENFORCE_READONLY_ROOT",
      "DEFAULT_RUN_AS_USER", "DEFAULT_RUN_AS_GROUP", "DEFAULT_FS_GROUP",
      "DEFAULT_RESOURCE_REQUESTS", "DEFAULT_RESOURCE_LIMITS">>

\* the positions of the reads that find no such attribute
UnsetReads(settings, names) == {i \in 1..Len(names) : names[i] \notin DOMAIN settings}

FirstUnsetRead(settings, names) ==
    names[CHOOSE i \in UnsetReads(settings, names) : \A j \in UnsetReads(settings, names) : i <= j]

\* str(e) of the AttributeError raised by reading a missing attribute of an
\* object of the class
ObjectAttributeError(class, attr) == <<"'", class, "' object has no attribute '", attr, "'">>

\* str(e) of pydantic's ValidationError for missing required fields
MissingFieldsError(class, n) ==
    <<ToString(n), IF n = 1 THEN " validation error for " ELSE " validation errors for ", class>>

\* the fields AdmissionResponse declares, and those without a default
\* (schemas/admission.py 28-36)
AdmissionResponseFields == {"uid", "allowed", "status", "patch", "patchType", "auditAnnotations", "warnings"}
AdmissionResponseRequired == {"uid", "allowed"}

\* AdmissionResponse(**kwargs): keyword arguments that are no field are
\* ignored, a required field that is not given raises ValidationError
AdmissionResponse(kwargs) ==
    LET missing == AdmissionResponseRequired \ DOMAIN kwargs IN
    IF missing # {}
    THEN [raised |-> JStr(MissingFieldsError("AdmissionResponse", Cardinality(missing))), value |-> JNull]
    ELSE [raised |-> JNull,
          value |-> JModel([f \in AdmissionResponseFields |-> IF f \in DOMAIN kwargs THEN kwargs[f] ELSE JNull])]

\* `raise HTTPException(status_code=..., detail=str(e))`, which FastAPI
\* answers with the body {"detail": ...} (lines 157, 211)
HTTPException(status_code, detail) ==
    [status_code |-> status_code, content |-> JMap("detail" :> JStr(detail))]

\* the answer to a handler that returned a model
Returned(model) == [status_code |-> 200, content |-> ModelDict(model)]

\* {"message": message} if message else None (lines 148, 202)
StatusOf(message) == IF Truthy(message) THEN JMap("message" :> message) ELSE JNull

\* the keyword arguments of the AdmissionResponse the handlers build
\* (lines 142-150, 194-204)
ResponseArguments(body) ==
    ("apiVersion" :> review.v["apiVersion"]) @@ ("kind" :> review.v["kind"]) @@ ("response" :> JMap(body))

\* the answer to a handler whose AdmissionResponse(...) call is given kwargs
Answer(kwargs) ==
    LET built == AdmissionResponse(kwargs) IN
    IF built.raised # JNull THEN HTTPException(400, built.raised.v) ELSE Returned(built.value)

\* the validators /validate registers (lines 126-133)
EndpointValidators ==
    <<SecurityContextValidator(config.ENFORCE_PRIVILEGED, config.ENFORCE_NON_ROOT,
                               config.ENFORCE_READONLY_ROOT, config.ENFORCE_HOST_NETWORK)>>

\* the mutators /mutate registers (lines 169-185)
EndpointMutators ==
    <<DefaultLabelsAnnotationsMutator(config.DEFAULT_LABELS, config.DEFAULT_ANNOTATIONS),
      DefaultSecurityContextMutator(config.ENFORCE_NON_ROOT, config.ENFORCE_READONLY_ROOT,
                                    config.DEFAULT_RUN_AS_USER, config.DEFAULT_RUN_AS_GROUP, config.DEFAULT_FS_GROUP),
      DefaultResourcesMutator(config.DEFAULT_RESOURCE_REQUESTS, config.DEFAULT_RESOURCE_LIMITS)>>

\* POST /validate (lines 116-157)
validate ==
    /\ pc = "received"
    /\ operation = "validate"
    /\ LET request == ModelDict(review)
           res == ValidatorChain_validate(EndpointValidators, request) IN
        /\ validators' = EndpointValidators
        /\ admission_request' = request
        /\ result' = res
        /\ response' = Answer(ResponseArguments(("uid" :> review.v["request"].v["uid"])
                                                @@ ("allowed" :> JBool(res.allowed))
                                                @@ ("status" :> StatusOf(res.message))))
    /\ pc' = "responded"
    /\ UNCHANGED <<mutators, idx, warnings, all_patches, invoked, submitted, calls, review, config, operation, inflight>>

\* the response of /mutate once the chain has returned `res` (lines
\* 194-204): result.patches is read when result.mutated, and MutationResult
\* has no such attribute
MutateAnswer(res) ==
    IF res.mutated
    THEN HTTPException(400, ObjectAttributeError("MutationResult", "patches"))
    ELSE Answer(ResponseArguments(("uid" :> review.v["request"].v["uid"])
                                  @@ ("allowed" :> JBool(TRUE))
                                  @@ ("patch" :> JNull)
                                  @@ ("patchType" :> JNull)
                                  @@ ("status" :> StatusOf(res.message))))

\* POST /mutate (lines 159-211)
mutate ==
    /\ pc = "received"
    /\ operation = "mutate"
    /\ IF UnsetReads(config, MutateConfigReads) # {}
       THEN /\ response' = HTTPException(400, ObjectAttributeError("WebhookConfig",
                                                                   FirstUnsetRead(config, MutateConfigReads)))
            /\ UNCHANGED <<mutators, admission_request, result>>
       ELSE LET outcome == MutatorChain_mutate(EndpointMutators, ModelDict(review)) IN
            /\ mutators' = EndpointMutators
            /\ admission_request' = outcome.request
            /\ result' = outcome.result
            /\ response' = IF "raised" \in DOMAIN outcome.result
                           THEN HTTPException(400, <<"1 validation error for MutationResult">>)
                           ELSE MutateAnswer(outcome.result)
    /\ pc' = "responded"
    /\ UNCHANGED <<validators, idx, warnings, all_patches, invoked, submitted, calls, review, config, operation, inflight>>

\* the review FastAPI parsed from the request body (schemas/admission.py
\* 16-43): request.kind and request.object are dicts
ParsedReview(uid, kind, object) ==
    JModel(("apiVersion" :> JStr(<<"admission.k8s.io/v1">>))
           @@ ("kind" :> JStr(<<"AdmissionReview">>))
           @@ ("request" :> JModel(("uid" :> JStr(<<uid>>))
                                   @@ ("kind" :> JMap(("group" :> EmptyStr) @@ ("version" :> JStr(<<"v1">>))
                                                      @@ ("kind" :> JStr(<<kind>>))))
                                   @@ ("operation" :> JStr(<<"CREATE">>))
                                   @@ ("object" :> object)
                                   @@ ("oldObject" :> JNull)))
           @@ ("response" :> JNull))

EndpointUids == {"test-uid", "705ab4f5-6393-11e8-b7cc-42010a800002"}

EndpointReviews ==
    {ParsedReview(u, "Pod", o) : u \in EndpointUids, o \in ChainPodObjects}
    \cup {ParsedReview(u, "Deployment", o) : u \in EndpointUids, o \in ChainDeploymentObjects}
    \cup {ParsedReview(u, "Service", o) : u \in EndpointUids, o \in {EmptyMap, JMap("metadata" :> EmptyMap)}}

\* the settings the environment can give the declared fields
WebhookConfigs ==
    {WebhookConfig(TRUE, TRUE, TRUE, TRUE), WebhookConfig(FALSE, FALSE, FALSE, FALSE),
     WebhookConfig(TRUE, FALSE, TRUE, FALSE)}

\* one review posted to one endpoint
InitEndpoint ==
    /\ review \in EndpointReviews
    /\ config \in WebhookConfigs
    /\ operation \in {"validate", "mutate"}
    /\ response = NoResponse
    /\ inflight = <<>>
    /\ pc = "received"
    /\ validators = <<>>
    /\ mutators = <<>>
    /\ admission_request = JNull
    /\ idx = 0
    /\ warnings = <<>>
    /\ all_patches = <<>>
    /\ result = NoResult
    /\ invoked = <<>>
    /\ submitted = ObjectIn(ModelDict(review))
    /\ calls = 0

NextEndpoint == validate \/ mutate

SpecEndpoint == InitEndpoint /\ [][NextEndpoint]_vars

----------------------------------------------------------------------------
\* Chain instances constructed once and called by several callers at a time
\* (validators/base.py 51-80, mutators/base.py 61-90): the instances hold
\* self.validators / self.mutators, a call holds its request and its locals

\* the value at a place of an object: a path of dict keys and list
\* positions (a position is written as its decimal text)
RECURSIVE AtPlace(_, _)
AtPlace(x, place) ==
    IF place = <<>> THEN x
    ELSE IF x.t = "map" /\ Head(place) \in DOMAIN x.v THEN AtPlace(x.v[Head(place)], Tail(place))
    ELSE IF x.t = "list" /\ \E k \in 1..Len(x.v) : ToString(k) = Head(place)
    THEN AtPlace(x.v[CHOOSE k \in 1..Len(x.v) : ToString(k) = Head(place)], Tail(place))
    ELSE Absent

\* the place of the pod spec the mutators edit (defaults.py 163-166)
PodSpecPlace(kind) == IF kind = JStr(<<"Deployment">>) THEN <<"spec", "template", "spec">> ELSE <<"spec">>

\* the containers a call of DefaultResourcesMutator.mutate gave a
\* "resources" entry (defaults.py 170-172)
FilledContainers(kind, before, after) ==
    LET containers == PodSpecPlace(kind) \o <<"containers">>
        items == AtPlace(after, containers) IN
    IF items.t # "list" THEN {}
    ELSE {k \in 1..Len(items.v) :
            /\ AtPlace(before, containers \o <<ToString(k)>>).t = "map"
            /\ AtPlace(before, containers \o <<ToString(k), "resources">>) = Absent
            /\ AtPlace(after, containers \o <<ToString(k), "resources">>) # Absent}

\* mutant: the labels mutator takes its own default_labels as the labels
\* dict of an object that has none
StoredByReferenceLabels(self, kind, before, after) ==
    IF self.class = "DefaultLabelsAnnotationsMutator"
    THEN IF /\ Truthy(self.default_labels)
            /\ AtPlace(before, <<"metadata", "labels">>) = Absent
            /\ AtPlace(after, <<"metadata", "labels">>) # Absent
         THEN {[place |-> <<"metadata", "labels">>, field |-> "default_labels"]}
         ELSE {}
    ELSE IF self.class # "DefaultResourcesMutator" THEN {}
    ELSE LET resources(k) == PodSpecPlace(kind) \o <<"containers", ToString(k), "resources">> IN
        {[place |-> resources(k) \o <<"requests">>, field |-> "default_requests"] :
            k \in {k \in FilledContainers(kind, before, after) : Truthy(self.default_requests)}}
        \cup {[place |-> resources(k) \o <<"limits">>, field |-> "default_limits"] :
            k \in {k \in FilledContainers(kind, before, after) : Truthy(self.default_limits)}}

\* the dicts of self that a call of mutate put into the object as they
\* are, not as copies, and the places they were put at:
\* resources["requests"] = self.default_requests and
\* resources["limits"] = self.default_limits (defaults.py 149, 152); the
\* labels and security context mutators build new dicts or copy entries
\* (labels.update, defaults.py 24-26; the dict displays of 75-79, 91-93)
StoredByReference(self, kind, before, after) ==
    IF self.class # "DefaultResourcesMutator" THEN {}
    ELSE LET resources(k) == PodSpecPlace(kind) \o <<"containers", ToString(k), "resources">> IN
        {[place |-> resources(k) \o <<"requests">>, field |-> "default_requests"] :
            k \in {k \in FilledContainers(kind, before, after) : Truthy(self.default_requests)}}
        \cup {[place |-> resources(k) \o <<"limits">>, field |-> "default_limits"] :
            k \in {k \in FilledContainers(kind, before, after) : Truthy(self.default_limits)}}

\* the value of self.<field> of the mutator at position owner, given the
\* places of the object at which that very dict is held: what the object
\* shows there is what the mutator holds
HeldField(self, owner, field, shared, obj) ==
    LET views == {AtPlace(obj, a.place) : a \in {a \in shared : a.owner = owner /\ a.field = field}} \ {Absent} IN
    IF views = {} THEN self[field] ELSE CHOOSE v \in views : TRUE

\* the mutator at position owner after a call edited the object
Held(self, owner, shared, obj) ==
    CASE self.class = "DefaultResourcesMutator" ->
            [self EXCEPT !.default_requests = HeldField(self, owner, "default_requests", shared, obj),
                         !.default_limits = HeldField(self, owner, "default_limits", shared, obj)]
      [] self.class = "DefaultLabelsAnnotationsMutator" ->
            [self EXCEPT !.default_labels = HeldField(self, owner, "default_labels", shared, obj),
                         !.default_annotations = HeldField(self, owner, "default_annotations", shared, obj)]
      [] OTHER -> self

\* mutant: the locals of every call are kept in one place (as attributes
\* of the chain would be)
FrameOfChain(t) == 1

\* the frame that holds the locals of call t: `warnings = []`
\* (validators/base.py 67) and `all_patches = []` (mutators/base.py 77)
\* are locals of the invocation
Frame(t) == t

\* a call before it starts
InflightCall(op, request) ==
    [operation |-> op, request |-> request, given |-> request, pc |-> "call", idx |-> 0,
     warnings |-> <<>>, all_patches |-> <<>>, result |-> NoMutationResult,
     shared |-> {}, overlapped |-> FALSE]

\* another call is inside its loop while call t takes a step
Overlaps(t) == \E u \in DOMAIN inflight : u # t /\ inflight[u].pc = "loop"

shared_idle == <<admission_request, pc, idx, warnings, all_patches, result, invoked, submitted, calls,
                 review, operation, response>>

\* entry of ValidatorChain.validate / MutatorChain.mutate (line 67 / 77)
SharedEnter(t) ==
    /\ inflight[t].pc = "call"
    /\ inflight' = [inflight EXCEPT ![t].pc = "loop",
                                    ![t].idx = 1,
                                    ![t].overlapped = @ \/ Overlaps(t),
                                    ![Frame(t)].warnings = <<>>,
                                    ![Frame(t)].all_patches = <<>>]
    /\ UNCHANGED <<validators, mutators, config, shared_idle>>

\* one iteration of `for validator in self.validators` (lines 69-78)
SharedValidate(t) ==
    LET call == inflight[t] IN
    /\ call.operation = "validate"
    /\ call.pc = "loop"
    /\ call.idx <= Len(validators)
    /\ IF ~Validator_supports(validators[call.idx], call.request)
       THEN inflight' = [inflight EXCEPT ![t].idx = @ + 1, ![t].overlapped = @ \/ Overlaps(t)]
       ELSE LET r == Validator_validate(validators[call.idx], call.request) IN
            IF ChainStops(r)
            THEN inflight' = [inflight EXCEPT ![t].result = r, ![t].pc = "done",
                                              ![t].overlapped = @ \/ Overlaps(t)]
            ELSE inflight' = [inflight EXCEPT ![t].idx = @ + 1,
                                              ![t].overlapped = @ \/ Overlaps(t),
                                              ![Frame(t)].warnings = ChainExtend(@, r)]
    /\ UNCHANGED <<validators, mutators, config, shared_idle>>

\* one iteration of `for mutator in self.mutators` (lines 79-88): the
\* mutator edits the call's object in place, and an edit of a dict that
\* the object shares with a mutator is an edit of what that mutator holds
SharedMutate(t) ==
    LET call == inflight[t] IN
    /\ call.operation = "mutate"
    /\ call.pc = "loop"
    /\ call.idx <= Len(mutators)
    /\ IF ~Mutator_supports(mutators[call.idx], call.request)
       THEN /\ inflight' = [inflight EXCEPT ![t].idx = @ + 1, ![t].overlapped = @ \/ Overlaps(t)]
            /\ UNCHANGED mutators
       ELSE LET outcome == Mutator_mutate(mutators[call.idx], call.request)
                before == ObjectIn(call.request)
                after == ObjectIn(outcome.request)
                kind == IF call.request.t = "model" /\ call.request.v["request"].t = "model"
                           /\ call.request.v["request"].v["kind"].t = "model"
                        THEN call.request.v["request"].v["kind"].v["kind"] ELSE JNull
                stored == {[place |-> s.place, field |-> s.field, owner |-> call.idx] :
                              s \in StoredByReference(mutators[call.idx], kind, before, after)}
                shared == call.shared \cup stored IN
            /\ mutators' = [j \in DOMAIN mutators |-> Held(mutators[j], j, shared, after)]
            /\ IF MutatorChainStops(outcome.result)
               THEN inflight' = [inflight EXCEPT ![t].request = outcome.request,
                                                 ![t].shared = shared,
                                                 ![t].result = outcome.result,
                                                 ![t].pc = "done",
                                                 ![t].overlapped = @ \/ Overlaps(t)]
               ELSE inflight' = [inflight EXCEPT ![t].request = outcome.request,
                                                 ![t].shared = shared,
                                                 ![t].idx = @ + 1,
                                                 ![t].overlapped = @ \/ Overlaps(t),
                                                 ![Frame(t)].all_patches = MutatorChainCollect(@, outcome.result)]
    /\ UNCHANGED <<validators, config, shared_idle>>

\* the return after the loop (validators/base.py 80, mutators/base.py 90)
SharedReturn(t) ==
    LET call == inflight[t]
        locals == inflight[Frame(t)] IN
    /\ call.pc = "loop"
    /\ call.idx > (IF call.operation = "validate" THEN Len(validators) ELSE Len(mutators))
    /\ inflight' =
        IF call.operation = "validate"
        THEN [inflight EXCEPT ![t].result = ChainFinalResult(locals.warnings), ![t].pc = "done",
                              ![t].overlapped = @ \/ Overlaps(t)]
        ELSE IF locals.all_patches = <<>>
        THEN [inflight EXCEPT ![t].result = MutationResult(TRUE, JNull, JNull), ![t].pc = "done",
                              ![t].overlapped = @ \/ Overlaps(t)]
        ELSE [inflight EXCEPT ![t].result = Raised("ValidationError"), ![t].pc = "raised",
                              ![t].overlapped = @ \/ Overlaps(t)]
    /\ UNCHANGED <<validators, mutators, config, shared_idle>>

\* the shared instances: a ValidatorChain and a MutatorChain
SharedValidators ==
    {<<RuleReturning(ValidationResult(TRUE, JNull, JList(<<JStr(<<"w1">>)>>))),
       ImagePolicyValidator(<<<<"docker.io">>>>, TRUE),
       RuleReturning(ValidationResult(TRUE, JNull, JList(<<JStr(<<"w2">>)>>)))>>}

SharedMutators ==
    {<<DefaultResourcesMutator(DefaultRequests, DefaultLimits),
       DefaultLabelsAnnotationsMutator(DefaultLabels, DefaultAnnotations),
       DefaultLabelsAnnotationsMutator(JMap("team" :> JStr(<<"platform">>)), JNull)>>,
     <<DefaultSecurityContextMutator(TRUE, TRUE, JNull, JNull, JNull),
       DefaultResourcesMutator(DefaultRequests, JNull),
       DefaultResourcesMutator(JMap("cpu" :> JStr(<<"250m">>)), DefaultLimits)>>}

\* the calls: validations of a dict request, mutations of a model request
SharedCalls ==
    {InflightCall("validate",
                  AdmissionReview(k, ObjectOf(k, PodSpec(NamedContainers(<<"image" :> JStr(<<r, "/", "app", ":", "v1">>)>>),
                                                         Absent)))) :
        k \in {"Pod"}, r \in {"docker.io", "gcr.io"}}
    \cup {InflightCall("validate", AdmissionReview("Service", EmptyMap))}
    \cup {InflightCall("mutate", ReviewModel("Pod", o)) :
            o \in {JMap("spec" :> MutatorPodSpec(NamedContainers(<<<<>>, "resources" :> EmptyMap>>), Absent)),
                   JMap(("metadata" :> CompliantMetadata)
                        @@ ("spec" :> MutatorPodSpec(JList(<<JMap("name" :> JStr(<<"a">>)), JNull>>), Absent)))}}
    \cup {InflightCall("mutate", ReviewModel("Service", EmptyMap))}

InitShared ==
    /\ validators \in SharedValidators
    /\ mutators \in SharedMutators
    /\ config = [validators |-> validators, mutators |-> mutators]
    /\ inflight \in [1..MaxInflight -> SharedCalls]
    /\ admission_request = JNull
    /\ pc = "idle"
    /\ idx = 0
    /\ warnings = <<>>
    /\ all_patches = <<>>
    /\ result = NoMutationResult
    /\ invoked = <<>>
    /\ submitted = JNull
    /\ calls = 0
    /\ review = JNull
    /\ operation = "none"
    /\ response = NoResponse

NextShared ==
    \/ \E t \in DOMAIN inflight : SharedEnter(t)
    \/ \E t \in DOMAIN inflight : SharedValidate(t)
    \/ \E t \in DOMAIN inflight : SharedMutate(t)
    \/ \E t \in DOMAIN inflight : SharedReturn(t)

SpecShared == InitShared /\ [][NextShared]_vars

----------------------------------------------------------------------------
\* Vocabulary of the properties

\* the inner request dict and its parts, as the request carries them
Req == Get(admission_request, "request", EmptyMap)
HasRequest == Contains(admission_request, "request")
HasObject == HasRequest /\ Contains(Req, "object")
Object == Get(Req, "object", JNull)

\* request.kind.kind, or None when the request carries none
RequestKind ==
    IF HasRequest /\ Contains(Req, "kind") /\ Contains(Req.v["kind"], "kind")
    THEN Req.v["kind"].v["kind"]
    ELSE JNull

KindIs(kind) == RequestKind = JStr(<<kind>>)
KindSupported == KindIs("Pod") \/ KindIs("Deployment")

\* the pod spec of the request's object, located by kind: spec for a Pod,
\* spec.template.spec for a Deployment; None when the path is not there
LocatedPodSpec ==
    IF ~(HasObject /\ IsMap(Object) /\ Contains(Object, "spec") /\ IsMap(Object.v["spec"])) THEN JNull
    ELSE IF KindIs("Pod") THEN Object.v["spec"]
    ELSE IF /\ KindIs("Deployment")
            /\ Contains(Object.v["spec"], "template")
            /\ IsMap(Object.v["spec"].v["template"])
            /\ Contains(Object.v["spec"].v["template"], "spec")
         THEN Object.v["spec"].v["template"].v["spec"]
    ELSE JNull

\* the rule under test in the single-rule specifications
Rule == validators[1]

\* a Pod request whose pod spec is a dict with a list of dict containers
WellFormedPod ==
    /\ KindIs("Pod")
    /\ IsMap(LocatedPodSpec)
    /\ Contains(LocatedPodSpec, "containers")
    /\ LocatedPodSpec.v["containers"].t = "list"
    /\ \A k \in 1..Len(LocatedPodSpec.v["containers"].v) : IsMap(LocatedPodSpec.v["containers"].v[k])

Containers == LocatedPodSpec.v["containers"].v
NumContainers == Len(Containers)

----------------------------------------------------------------------------
\* C1: short-circuit. When rule A is the first supporting rule of the chain
\* that denies the request, the chain returns A's result and calls nothing
\* on a rule registered after A: every call the chain ever makes is on a
\* rule at or before A, the last one being A's validate.

Denies(k) ==
    /\ Validator_supports(validators[k], admission_request)
    /\ ~Validator_validate(validators[k], admission_request).allowed

FirstDenying ==
    IF \E k \in 1..Len(validators) : Denies(k)
    THEN CHOOSE k \in 1..Len(validators) : Denies(k) /\ \A j \in 1..(k - 1) : ~Denies(j)
    ELSE 0

C1_ShortCircuit ==
    FirstDenying # 0 =>
        /\ \A j \in 1..Len(invoked) : invoked[j][1] <= FirstDenying
        /\ pc = "done" =>
            /\ result = Validator_validate(validators[FirstDenying], admission_request)
            /\ invoked[Len(invoked)] = <<FirstDenying, "validate">>

\* rules [A (fails), B (would also fail, with another message)]: A's message
\* is returned and B was never called
C1_Witness ==
    /\ pc = "done"
    /\ Len(validators) >= 2
    /\ FirstDenying = 1
    /\ Denies(2)
    /\ Validator_validate(validators[2], admission_request).message
         # Validator_validate(validators[1], admission_request).message
    /\ result.message = Validator_validate(validators[1], admission_request).message
    /\ \A j \in 1..Len(invoked) : invoked[j][1] = 1

----------------------------------------------------------------------------
\* C2: deny-closed on malformed input. Every request without an `object`
\* is answered allowed=false with the message "Missing request object",
\* whatever its kind and whatever rules are registered.

C2_DenyClosed ==
    (pc = "done" /\ HasRequest /\ ~HasObject) =>
        /\ ~result.allowed
        /\ result.message = JStr(MsgMissingObject)

----------------------------------------------------------------------------
\* C3: fail closed on unexpected shape. A Pod/Deployment request whose
\* located pod spec has `containers` that is not a list, or a container
\* that is not a dict, is never answered allowed=true.

UnexpectedShape ==
    /\ IsMap(LocatedPodSpec)
    /\ Contains(LocatedPodSpec, "containers")
    /\ \/ LocatedPodSpec.v["containers"].t # "list"
       \/ \E k \in 1..Len(LocatedPodSpec.v["containers"].v) : ~IsMap(LocatedPodSpec.v["containers"].v[k])

C3_FailClosed ==
    (pc = "done" /\ KindSupported /\ UnexpectedShape) => ~result.allowed

----------------------------------------------------------------------------
\* C4: unsupported kinds are skipped, not rejected. supports() of every
\* rule is true exactly when request.kind.kind is Pod or Deployment; for a
\* request of another kind that carries an object the chain calls no
\* validate and returns allowed=true with no message.

C4_UnsupportedSkipped ==
    /\ \A k \in 1..Len(validators) :
          Validator_supports(validators[k], admission_request) = KindSupported
    /\ (pc = "done" /\ HasObject /\ ~KindSupported) =>
          /\ result = ValidationResult(TRUE, JNull, JNull)
          /\ Len(invoked) = Len(validators)
          /\ \A j \in 1..Len(invoked) : invoked[j] = <<j, "supports">>

C4_Witness ==
    /\ pc = "done"
    /\ KindIs("Service")
    /\ HasObject
    /\ Len(validators) >= 2
    /\ \E k \in 1..Len(validators) :
          ~Validator__validate(validators[k], Req).allowed
    /\ result.allowed
    /\ result.message = JNull

----------------------------------------------------------------------------
\* C5: rules evaluate the located pod spec. The verdict of a rule on a
\* Deployment wrapping the pod spec P equals its verdict on a bare Pod
\* whose spec is P.

C5_LocatedPodSpec ==
    (pc = "done" /\ KindIs("Deployment") /\ LocatedPodSpec # JNull) =>
        result = Validator__validate(Rule, JMap("object" :> JMap("spec" :> LocatedPodSpec)))

----------------------------------------------------------------------------
\* C6: SecurityContextRule evaluation order on a Pod: host network first,
\* whatever the containers are; then, on a well-formed pod spec, the
\* containers in declaration order, and within a container privileged
\* before runAsUser == 0 before readOnlyRootFilesystem not true; the result
\* is the first violation, and the rule allows when no enabled check is
\* violated.

SecurityContextOf(k) == Get(Containers[k], "securityContext", EmptyMap)

SecurityWellFormedPod ==
    /\ WellFormedPod
    /\ \A k \in 1..NumContainers : IsMap(SecurityContextOf(k))

HostNetworkTrue == Get(LocatedPodSpec, "hostNetwork", JBool(FALSE)) = JBool(TRUE)
IsPrivileged(k) == Get(SecurityContextOf(k), "privileged", JBool(FALSE)) = JBool(TRUE)
RunsAsRoot(k) == Get(SecurityContextOf(k), "runAsUser", JNull) = JNum(0)
NotReadOnly(k) == Get(SecurityContextOf(k), "readOnlyRootFilesystem", JBool(FALSE)) # JBool(TRUE)

SecurityViolates(k) ==
    \/ Rule.enforce_privileged /\ IsPrivileged(k)
    \/ Rule.enforce_non_root /\ RunsAsRoot(k)
    \/ Rule.enforce_readonly_root /\ NotReadOnly(k)

SecurityFirstMessage(k) ==
    IF Rule.enforce_privileged /\ IsPrivileged(k) THEN MsgPrivileged
    ELSE IF Rule.enforce_non_root /\ RunsAsRoot(k) THEN MsgRoot
    ELSE MsgReadonly

----------------------------------------------------------------------------
\* C7: an absent securityContext counts as all fields unset. With
\* enforce_readonly_root, a container with no securityContext, or whose
\* readOnlyRootFilesystem is absent or false, is denied with "Root
\* filesystem must be read-only" (when nothing before it in the evaluation
\* order is violated); without enforce_readonly_root and with no other
\* violation the pod is allowed.

LacksReadOnly(k) ==
    \/ ~Contains(Containers[k], "securityContext")
    \/ ~Contains(SecurityContextOf(k), "readOnlyRootFilesystem")
    \/ SecurityContextOf(k).v["readOnlyRootFilesystem"] = JBool(FALSE)

OtherSecurityViolation(k) ==
    \/ Rule.enforce_privileged /\ IsPrivileged(k)
    \/ Rule.enforce_non_root /\ RunsAsRoot(k)

----------------------------------------------------------------------------
\* C8: a SecurityContextValidator built with its default settings allows a
\* Pod whose containers declare no securityContext and no hostNetwork.

C8_DefaultAllowsNoSecurityContext ==
    (/\ pc = "done"
     /\ Rule = DefaultSecurityContextValidator
     /\ SecurityWellFormedPod
     /\ ~Contains(LocatedPodSpec, "hostNetwork")
     /\ \A k \in 1..NumContainers : ~Contains(Containers[k], "securityContext"))
        => result.allowed

----------------------------------------------------------------------------
\* C9: ImagePolicyRule order preservation on a well-formed Pod: the
\* denial is that of the first failing check (empty image, then registry,
\* then latest tag) of the first violating container in declaration
\* order; the rule allows when no container violates the policy.

ImageWellFormedPod ==
    /\ WellFormedPod
    /\ \A k \in 1..NumContainers : Get(Containers[k], "image", EmptyStr).t = "str"

ImageOf(k) == Get(Containers[k], "image", EmptyStr).v

ImageViolates(k) ==
    \/ ImageOf(k) = <<>>
    \/ RegistryViolation(Rule, ImageOf(k))
    \/ LatestViolation(Rule, ImageOf(k))

ImageFirstMessage(k) ==
    IF ImageOf(k) = <<>> THEN MsgNoImage(Containers[k])
    ELSE IF RegistryViolation(Rule, ImageOf(k)) THEN MsgRegistry(Rule, RegistryOf(ImageOf(k)))
    ELSE MsgLatest(ImageOf(k))

----------------------------------------------------------------------------
\* C10: ImagePolicyRule registry check. For a non-empty image (of the
\* first container, which is always inspected) the registry is the part
\* before the first "/" when there is one and docker.io otherwise; the
\* container is denied by the registry check iff that registry is not in
\* allowed_registries, and the denial names the registry and says
\* "not allowed".

IsRegistryOf(r, image) ==
    IF \E p \in 1..Len(image) : image[p] = "/"
    THEN \E p \in 1..Len(image) :
            /\ image[p] = "/"
            /\ \A q \in 1..(p - 1) : image[q] # "/"
            /\ r = SubSeq(image, 1, p - 1)
    ELSE r = <<"docker.io">>

IsRegistryDenial(res, r) ==
    /\ ~res.allowed
    /\ res.message.t = "str"
    /\ Len(res.message.v) >= Len(r) + 2
    /\ res.message.v[1] = "Registry "
    /\ SubSeq(res.message.v, 2, Len(r) + 1) = r
    /\ res.message.v[Len(r) + 2] = " is not allowed. Allowed registries: "

----------------------------------------------------------------------------
\* C11: ImagePolicyRule latest-tag check. With deny_latest_tag set, an image
\* whose registry is allowed is denied with "Latest tag is not allowed for
\* image <image>" if and only if it contains no ":" or its tag, the part
\* after the last ":", is exactly "latest"; an image tagged latest-alpine
\* or with any other tag is allowed; with deny_latest_tag unset no image is
\* denied for its tag.

RegistryAllowed(image) ==
    \E r \in {SubSeq(image, 1, n) : n \in 0..Len(image)} \cup {<<"docker.io">>} :
        /\ IsRegistryOf(r, image)
        /\ \E j \in 1..Len(Rule.allowed_registries) : Rule.allowed_registries[j] = r

NoColon(image) == \A p \in 1..Len(image) : image[p] # ":"

TagIsLatest(image) ==
    /\ Len(image) >= 2
    /\ image[Len(image) - 1] = ":"
    /\ image[Len(image)] = "latest"

C11_LatestTag ==
    (pc = "done" /\ ImageWellFormedPod /\ NumContainers >= 1
       /\ ImageOf(1) # <<>> /\ RegistryAllowed(ImageOf(1))) =>
        (result = Deny(<<"Latest tag is not allowed for image ">> \o ImageOf(1))
            <=> (Rule.deny_latest_tag /\ (NoColon(ImageOf(1)) \/ TagIsLatest(ImageOf(1)))))

----------------------------------------------------------------------------
\* C12: ResourceRequirementsRule on a well-formed Pod. With enforce_limits
\* false the rule allows. With enforce_limits true the containers are
\* scanned in order and each is checked in the order resources block (absent
\* or empty counts as missing), limits.cpu, limits.memory, requests.cpu,
\* requests.memory; the rule denies with the message of the first missing
\* item of the first deficient container, and allows iff no container is
\* deficient.

ResourcesOf(k) == Get(Containers[k], "resources", EmptyMap)

ResourceWellFormedPod ==
    /\ WellFormedPod
    /\ \A k \in 1..NumContainers :
          /\ IsMap(ResourcesOf(k))
          /\ IsMap(Get(ResourcesOf(k), "limits", EmptyMap))
          /\ IsMap(Get(ResourcesOf(k), "requests", EmptyMap))

HasResource(k, section, name) ==
    /\ Contains(ResourcesOf(k), section)
    /\ Contains(ResourcesOf(k).v[section], name)

FirstMissing(k) ==
    IF ResourcesOf(k) = EmptyMap THEN "resource requirements"
    ELSE IF ~HasResource(k, "limits", "cpu") THEN "CPU limits"
    ELSE IF ~HasResource(k, "limits", "memory") THEN "memory limits"
    ELSE IF ~HasResource(k, "requests", "cpu") THEN "CPU requests"
    ELSE IF ~HasResource(k, "requests", "memory") THEN "memory requests"
    ELSE "nothing"

Deficient(k) == FirstMissing(k) # "nothing"

\* the container's name as the message prints it
NameText(k) == IF Contains(Containers[k], "name") THEN Containers[k].v["name"].v ELSE <<"None">>

ResourceDenial(k) ==
    Deny(<<"Container ">> \o NameText(k) \o <<" must specify ", FirstMissing(k)>>)

C12_ResourceOrder ==
    (pc = "done" /\ ResourceWellFormedPod) =>
        IF ~Rule.enforce_limits THEN result.allowed
        ELSE IF \E k \in 1..NumContainers : Deficient(k)
        THEN \E k \in 1..NumContainers :
                /\ Deficient(k)
                /\ \A j \in 1..(k - 1) : ~Deficient(j)
                /\ result = ResourceDenial(k)
        ELSE result.allowed

\* the first container has everything, the second has a resources block
\* without any limit and without requests.memory: CPU limits is reported
\* for the second one
C12_Witness ==
    /\ pc = "done"
    /\ ResourceWellFormedPod
    /\ Rule.enforce_limits
    /\ NumContainers = 2
    /\ ~Deficient(1)
    /\ ~HasResource(2, "limits", "cpu") /\ ~HasResource(2, "limits", "memory")
    /\ HasResource(2, "requests", "cpu") /\ ~HasResource(2, "requests", "memory")
    /\ result = Deny(<<"Container ", "container", "2", " must specify ", "CPU limits">>)

----------------------------------------------------------------------------
\* C13: ValidationChain warnings. The warnings of the chain's result are
\* the in-order concatenation of the warnings of the rules that were
\* evaluated and allowed: of all supporting rules when none fails, of the
\* supporting rules before the failing one when one fails; the field is
\* None when that list is empty.

\* the supporting rules evaluated before the chain returns that allowed
EvaluatedAllowed(k) ==
    /\ Validator_supports(validators[k], admission_request)
    /\ Validator_validate(validators[k], admission_request).allowed
    /\ FirstDenying = 0 \/ k < FirstDenying

RECURSIVE WarningsFrom(_)
WarningsFrom(k) ==
    IF k > Len(validators) THEN <<>>
    ELSE LET w == Validator_validate(validators[k], admission_request).warnings IN
         (IF EvaluatedAllowed(k) /\ w.t = "list" THEN w.v ELSE <<>>) \o WarningsFrom(k + 1)

C13_ChainWarnings ==
    pc = "done" =>
        result.warnings = (IF WarningsFrom(1) = <<>> THEN JNull ELSE JList(WarningsFrom(1)))
----------------------------------------------------------------------------
\* Vocabulary of the properties of the mutation pipeline

\* the mutator under test in the single-mutator specification
Mutator == mutators[1]

\* the request's object as it is now, after the edits made in place
CurrentObject == ObjectIn(admission_request)

\* the request is built the way the mutators read it: request.request and
\* request.request.kind are objects with attributes
AttributeRequest ==
    /\ admission_request.t = "model"
    /\ admission_request.v["request"].t = "model"
    /\ admission_request.v["request"].v["kind"].t = "model"

MutationKindIs(kind) ==
    AttributeRequest /\ admission_request.v["request"].v["kind"].v["kind"] = JStr(<<kind>>)

MutationKindSupported == MutationKindIs("Pod") \/ MutationKindIs("Deployment")

\* the value at a path of keys, Absent when the path is not there
RECURSIVE At(_, _)
At(x, path) ==
    IF path = <<>> THEN x
    ELSE IF x.t = "map" /\ Head(path) \in DOMAIN x.v THEN At(x.v[Head(path)], Tail(path))
    ELSE Absent

AbsentOrMap(x) == x = Absent \/ x.t = "map"

\* where the kind keeps its pod spec
PodSpecPath == IF MutationKindIs("Deployment") THEN <<"spec", "template", "spec">> ELSE <<"spec">>

\* the chain of dicts down to the pod spec is there, or can be created:
\* a Pod's spec is absent or a dict; a Deployment has a dict spec holding a
\* dict template whose spec is absent or a dict
PodSpecReachable ==
    IF MutationKindIs("Deployment")
    THEN /\ At(submitted, <<"spec">>).t = "map"
         /\ At(submitted, <<"spec", "template">>).t = "map"
         /\ AbsentOrMap(At(submitted, <<"spec", "template", "spec">>))
    ELSE AbsentOrMap(At(submitted, <<"spec">>))

\* the containers of the located pod spec are absent or a list of dicts
ContainersWellFormed ==
    LET containers == At(submitted, PodSpecPath \o <<"containers">>) IN
    \/ containers = Absent
    \/ containers.t = "list" /\ \A k \in 1..Len(containers.v) : containers.v[k].t = "map"

\* the containers of the located pod spec, before and after
ContainersBefore == At(submitted, PodSpecPath \o <<"containers">>)
ContainersAfter == At(CurrentObject, PodSpecPath \o <<"containers">>)

----------------------------------------------------------------------------
\* C14: LabelsAnnotationsMutator merge policy. After the mutator succeeded
\* on a Pod or Deployment, metadata.labels and metadata.annotations (and for
\* a Deployment those of spec.template.metadata) map every configured
\* default key to its configured value, also when the key existed with
\* another value; every other existing key keeps its value; no other key
\* appears; missing metadata and label maps are created. The mutator
\* succeeds whenever these maps are absent or dicts.

\* the merge at one metadata path, for one of labels / annotations
MergedAt(path, section, defaults) ==
    DOMAIN defaults.v # {} =>
        LET new == At(CurrentObject, path \o <<section>>)
            old == At(submitted, path \o <<section>>)
            oldKeys == IF old # Absent /\ old.t = "map" THEN DOMAIN old.v ELSE {} IN
        /\ new # Absent /\ new.t = "map"
        /\ DOMAIN new.v = DOMAIN defaults.v \cup oldKeys
        /\ \A k \in DOMAIN defaults.v : new.v[k] = defaults.v[k]
        /\ \A k \in oldKeys \ DOMAIN defaults.v : new.v[k] = old.v[k]

MergedMetadata(path) ==
    /\ MergedAt(path, "labels", Mutator.default_labels)
    /\ MergedAt(path, "annotations", Mutator.default_annotations)

MetadataWellFormed(path) ==
    /\ AbsentOrMap(At(submitted, path))
    /\ AbsentOrMap(At(submitted, path \o <<"labels">>))
    /\ AbsentOrMap(At(submitted, path \o <<"annotations">>))

LabelsWellFormed ==
    /\ MutationKindSupported
    /\ MetadataWellFormed(<<"metadata">>)
    /\ MutationKindIs("Deployment") =>
          /\ At(submitted, <<"spec">>) # Absent /\ At(submitted, <<"spec">>).t = "map"
          /\ AbsentOrMap(At(submitted, <<"spec", "template">>))
          /\ MetadataWellFormed(<<"spec", "template", "metadata">>)

C14_LabelsMerge ==
    (pc = "done" /\ Mutator.class = "DefaultLabelsAnnotationsMutator") =>
        /\ result.mutated =>
              /\ MergedMetadata(<<"metadata">>)
              /\ MutationKindIs("Deployment") => MergedMetadata(<<"spec", "template", "metadata">>)
        /\ LabelsWellFormed => result.mutated

\* default label app=webhook on a Pod labelled app=mine, team=a: app is
\* overwritten, team is kept
C14_Witness ==
    /\ pc = "done"
    /\ Mutator = DefaultLabelsAnnotationsMutator(DefaultLabels, DefaultAnnotations)
    /\ MutationKindIs("Pod")
    /\ At(submitted, <<"metadata", "labels", "app">>) = JStr(<<"mine">>)
    /\ At(submitted, <<"metadata", "annotations">>) = Absent
    /\ result.mutated
    /\ At(CurrentObject, <<"metadata", "labels">>)
         = JMap(("app" :> JStr(<<"webhook">>)) @@ ("team" :> JStr(<<"a">>)))
    /\ At(CurrentObject, <<"metadata", "annotations">>) = DefaultAnnotations

----------------------------------------------------------------------------
\* C15: SecurityContextMutator is a full overwrite. After the mutator
\* succeeded, the securityContext of the located pod spec is exactly
\* {runAsNonRoot, and runAsUser / runAsGroup / fsGroup when configured} and
\* the securityContext of every container is exactly {runAsNonRoot,
\* readOnlyRootFilesystem, allowPrivilegeEscalation: false, and runAsUser /
\* runAsGroup when configured}: nothing the submitter supplied survives in
\* them. The mutator succeeds whenever the pod spec is reachable and its
\* containers are absent or a list of dicts.

Configured(name) ==
    CASE name = "runAsUser" -> Mutator.run_as_user
      [] name = "runAsGroup" -> Mutator.run_as_group
      [] name = "fsGroup" -> Mutator.fs_group

\* the dict with the fixed entries and those of the optional names that are
\* configured
PolicyContext(fixed, optional) ==
    JMap([k \in DOMAIN fixed \cup {n \in optional : Configured(n) # JNull} |->
            IF k \in DOMAIN fixed THEN fixed[k] ELSE Configured(k)])

PolicyPodContext ==
    PolicyContext("runAsNonRoot" :> JBool(Mutator.run_as_non_root), {"runAsUser", "runAsGroup", "fsGroup"})

PolicyContainerContext ==
    PolicyContext(("runAsNonRoot" :> JBool(Mutator.run_as_non_root))
                  @@ ("readOnlyRootFilesystem" :> JBool(Mutator.read_only_root_filesystem))
                  @@ ("allowPrivilegeEscalation" :> JBool(FALSE)),
                  {"runAsUser", "runAsGroup"})

C15_SecurityOverwrite ==
    (pc = "done" /\ Mutator.class = "DefaultSecurityContextMutator") =>
        /\ result.mutated =>
              /\ At(CurrentObject, PodSpecPath \o <<"securityContext">>) = PolicyPodContext
              /\ (ContainersAfter # Absent /\ ContainersAfter.t = "list") =>
                    \A k \in 1..Len(ContainersAfter.v) :
                        At(ContainersAfter.v[k], <<"securityContext">>) = PolicyContainerContext
        /\ (MutationKindSupported /\ PodSpecReachable /\ ContainersWellFormed) => result.mutated

\* a Pod whose pod spec runs as user 0 and whose first container asks for
\* privileged: true and capabilities: both contexts are replaced
C15_Witness ==
    /\ pc = "done"
    /\ Mutator = DefaultSecurityContextMutator(TRUE, TRUE, JNum(1000), JNum(2000), JNum(3000))
    /\ MutationKindIs("Pod")
    /\ At(submitted, <<"spec", "securityContext", "runAsUser">>) = JNum(0)
    /\ ContainersBefore.t = "list" /\ Len(ContainersBefore.v) >= 1
    /\ At(ContainersBefore.v[1], <<"securityContext">>) = SubmittedSecurityContext
    /\ result.mutated
    /\ At(ContainersAfter.v[1], <<"securityContext", "privileged">>) = Absent
    /\ At(ContainersAfter.v[1], <<"securityContext", "capabilities">>) = Absent
    /\ At(ContainersAfter.v[1], <<"securityContext", "runAsUser">>) = JNum(1000)
    /\ At(CurrentObject, <<"spec", "securityContext", "seLinuxOptions">>) = Absent

----------------------------------------------------------------------------
\* C16: ResourcesMutator only fills gaps. After the mutator succeeded, a
\* container that had no resources entry has resources set to exactly
\* {requests: default_requests, limits: default_limits}, and a container
\* that had a resources entry, even an empty or partial one, is unchanged;
\* nothing else of a container changes.

\* container k after the call, without its resources entry
WithoutResources(container) ==
    JMap([k \in DOMAIN container.v \ {"resources"} |-> container.v[k]])

\* every container that lacked resources now has the given ones, every
\* other container is as it was
GapsFilledWith(resources) ==
    (ContainersAfter # Absent /\ ContainersAfter.t = "list") =>
        /\ ContainersBefore # Absent /\ ContainersBefore.t = "list"
        /\ Len(ContainersAfter.v) = Len(ContainersBefore.v)
        /\ \A k \in 1..Len(ContainersAfter.v) :
              IF At(ContainersBefore.v[k], <<"resources">>) = Absent
              THEN /\ At(ContainersAfter.v[k], <<"resources">>) = resources
                   /\ WithoutResources(ContainersAfter.v[k]) = ContainersBefore.v[k]
              ELSE ContainersAfter.v[k] = ContainersBefore.v[k]

\* the claim as stated: the filled value always has both keys
C16_FillsGapsBothKeys ==
    (pc = "done" /\ Mutator.class = "DefaultResourcesMutator" /\ result.mutated) =>
        GapsFilledWith(JMap(("requests" :> Mutator.default_requests) @@ ("limits" :> Mutator.default_limits)))

\* C16 as amended: the filled value holds requests: default_requests only
\* when default_requests is configured (non-empty) and limits:
\* default_limits only when default_limits is configured, so it is exactly
\* {requests, limits} when both are. The mutator succeeds whenever the pod
\* spec is reachable and its containers are absent or a list of dicts.
ConfiguredResources ==
    JMap([k \in {n \in {"requests", "limits"} :
                    DOMAIN (IF n = "requests" THEN Mutator.default_requests ELSE Mutator.default_limits).v # {}} |->
            IF k = "requests" THEN Mutator.default_requests ELSE Mutator.default_limits])

C16_FillsGaps ==
    (pc = "done" /\ Mutator.class = "DefaultResourcesMutator") =>
        /\ result.mutated => GapsFilledWith(ConfiguredResources)
        /\ (MutationKindSupported /\ PodSpecReachable /\ ContainersWellFormed) => result.mutated

\* a Deployment whose first container has no resources and whose second
\* has limits.cpu only: the first gets both defaults, the second is kept
C16_Witness ==
    /\ pc = "done"
    /\ Mutator = DefaultResourcesMutator(DefaultRequests, DefaultLimits)
    /\ MutationKindIs("Deployment")
    /\ ContainersBefore # Absent /\ ContainersBefore.t = "list" /\ Len(ContainersBefore.v) = 2
    /\ At(ContainersBefore.v[1], <<"resources">>) = Absent
    /\ At(ContainersBefore.v[2], <<"resources">>) = JMap("limits" :> JMap("cpu" :> JStr(<<"2">>)))
    /\ result.mutated
    /\ At(ContainersAfter.v[1], <<"resources">>)
         = JMap(("requests" :> DefaultRequests) @@ ("limits" :> DefaultLimits))
    /\ ContainersAfter.v[2] = ContainersBefore.v[2]

----------------------------------------------------------------------------
\* Vocabulary of the properties of the mutator chain

\* the indices of the mutators the chain has consulted in this call
Consulted == {invoked[k][1] : k \in 1..Len(invoked)}

\* the call has returned or raised after the loop went through every mutator
RanToCompletion == pc \in {"done", "raised"} /\ idx > Len(mutators)

----------------------------------------------------------------------------
\* C17: MutationChain skips unsupported mutators. For a request whose kind
\* the mutators do not support, when the chain has returned its result is
\* mutated=false with no message, the object is unchanged, and every
\* mutator of the chain has been consulted: a mutator that reports
\* mutated=false with no message is passed over and the following ones
\* still run.
C17_SkipsUnsupported ==
    (pc = "done" /\ AttributeRequest /\ ~MutationKindSupported) =>
        /\ result = NotMutated
        /\ CurrentObject = submitted
        /\ Consulted = 1..Len(mutators)

----------------------------------------------------------------------------
\* C18: MutationChain aborts on error. When the mutator the loop is at
\* returns a result with a message, the chain returns at once exactly that
\* result, and no further mutator is invoked until the chain is called
\* again; a returned result that carries a message has mutated=false and no
\* patched object, and no mutator after the failing one was invoked.
ErrorAt == pc = "loop" /\ idx <= Len(mutators)
               /\ Mutator_mutate(mutators[idx], admission_request).result.message # JNull

C18_AbortStep ==
    /\ ErrorAt =>
          /\ pc' = "done"
          /\ result' = Mutator_mutate(mutators[idx], admission_request).result
          /\ invoked' = invoked \o <<<<idx, "supports">>, <<idx, "mutate">>>>
    /\ pc = "done" => (invoked' = invoked \/ pc' = "call")

C18_Aborted ==
    (pc = "done" /\ result.message # JNull) =>
        /\ ~result.mutated
        /\ result.patched = JNull
        /\ idx <= Len(mutators)
        /\ invoked[Len(invoked)] = <<idx, "mutate">>
        /\ Consulted = 1..idx

C18_AbortsOnError == [][C18_AbortStep]_vars /\ []C18_Aborted

\* a chain of three whose first mutator succeeded (its patch is collected)
\* and whose second failed: the third was never invoked and the result
\* carries the message and no patched object
C18_Witness ==
    /\ pc = "done"
    /\ Len(mutators) = 3
    /\ invoked = <<<<1, "supports">>, <<1, "mutate">>, <<2, "supports">>, <<2, "mutate">>>>
    /\ all_patches # <<>>
    /\ result.message # JNull
    /\ result.patched = JNull
    /\ ~result.mutated
    /\ CurrentObject # submitted

----------------------------------------------------------------------------
\* C19: MutationChain outcome. When all mutators of a call ran to
\* completion, the chain returns, with mutated=true if and only if the
\* final object differs from the object the call was given, and with
\* mutated=false, no patch and no message when they are identical.
C19_Outcome ==
    RanToCompletion =>
        /\ pc = "done"
        /\ result.mutated <=> (CurrentObject # submitted)
        /\ CurrentObject = submitted => result = NotMutated

----------------------------------------------------------------------------
\* C20: Idempotence. When the chain is run again on the object a previous
\* run of the same chain left, and all mutators ran to completion without
\* changing it (it already carried all configured defaults), the chain
\* returns mutated=false.
C20_Idempotent ==
    (calls >= 2 /\ RanToCompletion /\ CurrentObject = submitted) =>
        (pc = "done" /\ ~result.mutated)

----------------------------------------------------------------------------
\* C21: MutationResult shape. Every call of the MutationChain ends in a
\* result in which the patched object is present if and only if mutated is
\* true, a patched object that is present is the one full resulting
\* resource (the request's object after all mutators) and not a list of
\* per-mutator outputs, and a message is present if and only if a mutator
\* failed (the result is not mutated although the kind is supported).
C21_ResultShape ==
    pc \in {"done", "raised"} =>
        /\ pc = "done"
        /\ (result.patched # JNull) <=> result.mutated
        /\ result.patched # JNull => result.patched = CurrentObject
        /\ (result.message # JNull) <=> (~result.mutated /\ ~(AttributeRequest /\ ~MutationKindSupported))

----------------------------------------------------------------------------
\* C26: Mutation works on a private copy. After a mutator has run,
\* successfully or not, the object held by the request that was passed in
\* is structurally equal to what it was before the call.
C26_PrivateCopy == pc = "done" => CurrentObject = submitted

----------------------------------------------------------------------------
\* C28: MutationChain threads cumulative edits. Each mutator of the chain
\* is given the object as the mutators before it left it, and when all
\* mutators of a chain ran to completion the one final object carries the
\* edits of every one of them at once: the default labels and annotations,
\* the overwritten security contexts, and the default resources in every
\* container that had none.

\* the mutators before position i are of another class than mutators[i]
FirstOfItsClass(i) == \A j \in 1..(i - 1) : mutators[j].class # mutators[i].class

\* the mutators after position i are of another class than mutators[i]
LastOfItsClass(i) == \A j \in (i + 1)..Len(mutators) : mutators[j].class # mutators[i].class

CarriesDefaults(path, defaults) ==
    \A k \in DOMAIN defaults.v : At(CurrentObject, path \o <<k>>) = defaults.v[k]

CarriesLabels(m) ==
    LET paths == {<<"metadata">>} \cup
                 (IF MutationKindIs("Deployment") THEN {<<"spec", "template", "metadata">>} ELSE {}) IN
    \A path \in paths :
        /\ CarriesDefaults(path \o <<"labels">>, m.default_labels)
        /\ CarriesDefaults(path \o <<"annotations">>, m.default_annotations)

CarriesSecurityContexts(m) ==
    /\ At(CurrentObject, PodSpecPath \o <<"securityContext">>) = get_default_pod_security_context(m)
    /\ (ContainersAfter # Absent /\ ContainersAfter.t = "list") =>
          \A k \in 1..Len(ContainersAfter.v) :
              At(ContainersAfter.v[k], <<"securityContext">>) = get_default_container_security_context(m)

CarriesResources(m) ==
    (ContainersAfter # Absent /\ ContainersAfter.t = "list") =>
        \A k \in 1..Len(ContainersAfter.v) :
            At(ContainersAfter.v[k], <<"resources">>) =
                IF At(ContainersBefore.v[k], <<"resources">>) = Absent
                THEN get_default_resources(m)
                ELSE At(ContainersBefore.v[k], <<"resources">>)

Carries(i) ==
    CASE mutators[i].class = "DefaultLabelsAnnotationsMutator" -> CarriesLabels(mutators[i])
      [] mutators[i].class = "DefaultSecurityContextMutator" -> LastOfItsClass(i) => CarriesSecurityContexts(mutators[i])
      [] mutators[i].class = "DefaultResourcesMutator" -> FirstOfItsClass(i) => CarriesResources(mutators[i])

C28_Threaded ==
    (pc = "loop" /\ idx <= Len(mutators) /\ idx' = idx + 1) =>
        admission_request' = Mutator_mutate(mutators[idx], admission_request).request

C28_Carried ==
    (RanToCompletion /\ calls = 1) => \A i \in 1..Len(mutators) : Carries(i)

C28_CumulativeEdits == [][C28_Threaded]_vars /\ []C28_Carried

\* the chain [labels, security context, resources] on a Pod with one bare
\* container: the final object has the labels, both security contexts and
\* the resources
C28_Witness ==
    /\ RanToCompletion
    /\ calls = 1
    /\ mutators = <<DefaultLabelsAnnotationsMutator(DefaultLabels, DefaultAnnotations),
                    DefaultSecurityContextMutator(TRUE, TRUE, JNull, JNull, JNull),
                    DefaultResourcesMutator(DefaultRequests, DefaultLimits)>>
    /\ MutationKindIs("Pod")
    /\ At(submitted, <<"metadata">>) = Absent
    /\ ContainersBefore = NamedContainers(<<<<>>>>)
    /\ At(CurrentObject, <<"metadata", "labels">>) = DefaultLabels
    /\ At(CurrentObject, <<"spec", "securityContext">>) = JMap("runAsNonRoot" :> JBool(TRUE))
    /\ At(ContainersAfter.v[1], <<"securityContext", "allowPrivilegeEscalation">>) = JBool(FALSE)
    /\ At(ContainersAfter.v[1], <<"resources", "requests">>) = DefaultRequests

----------------------------------------------------------------------------
\* C30: An erroring mutator leaves no partial edit. Whenever a mutator
\* returns mutated=false with an error message, the object it was given is
\* structurally identical to what it was before the mutator was invoked.
C30_NoPartialEdit ==
    (pc = "done" /\ ~result.mutated /\ result.message # JNull) => CurrentObject = submitted

----------------------------------------------------------------------------
\* C22: Kind-path equivalence. For every pod spec P and every
\* configuration, what a mutator does to a Pod with spec P and to a
\* Deployment wrapping P is the same up to the place of the pod spec: both
\* calls succeed or fail alike, and the Deployment's object after the call
\* is the Pod's object after the call with its spec moved from /spec to
\* /spec/template/spec.

\* the Deployment that wraps the pod spec of a Pod object
Wrapping(pod) ==
    JMap(Field("metadata", At(pod, <<"metadata">>))
         @@ ("spec" :> JMap("template" :> JMap("spec" :> pod.v["spec"]))))

\* the request is a Pod that has a spec, and the mutator has been called
PodWithSpecMutated ==
    /\ pc = "done"
    /\ MutationKindIs("Pod")
    /\ submitted.t = "map"
    /\ "spec" \in DOMAIN submitted.v

\* the same mutator called on the Deployment wrapping the submitted pod spec
WrappingOutcome == MutatorBody(Mutator, JStr(<<"Deployment">>), Wrapping(submitted))

\* the claim as stated: nothing but the path prefix differs
C22_KindPathOnly ==
    PodWithSpecMutated =>
        /\ WrappingOutcome.result.mutated = result.mutated
        /\ WrappingOutcome.result.message = result.message
        /\ WrappingOutcome.object = Wrapping(CurrentObject)

\* C22 as amended: the edits inside the pod spec are the same edits
\* relocated from /spec to /spec/template/spec, and both calls succeed or
\* fail alike; outside the pod spec the objects differ only in that the
\* labels mutator, which edits /metadata of both, also writes the default
\* labels and annotations to the Deployment's /spec/template/metadata.
WithoutTemplateMetadata(deployment) ==
    LET template == deployment.v["spec"].v["template"] IN
    Put(deployment, "spec", Put(deployment.v["spec"], "template",
        JMap([k \in DOMAIN template.v \ {"metadata"} |-> template.v[k]])))

TemplateDefaults ==
    JMap(IfTruthy("labels", Mutator.default_labels) @@ IfTruthy("annotations", Mutator.default_annotations))

C22_KindPath ==
    PodWithSpecMutated =>
        /\ WrappingOutcome.result.mutated = result.mutated
        /\ WrappingOutcome.result.message = result.message
        /\ At(WrappingOutcome.object, <<"spec", "template", "spec">>) = At(CurrentObject, <<"spec">>)
        /\ IF Mutator.class = "DefaultLabelsAnnotationsMutator" /\ result.mutated
           THEN /\ WithoutTemplateMetadata(WrappingOutcome.object) = Wrapping(CurrentObject)
                /\ At(WrappingOutcome.object, <<"spec", "template", "metadata">>) = TemplateDefaults
           ELSE WrappingOutcome.object = Wrapping(CurrentObject)

\* a Pod whose one container asks for privileged: true, given to the
\* security-context mutator: the wrapped pod spec ends as the Pod's spec
C22_Witness ==
    /\ PodWithSpecMutated
    /\ Mutator = DefaultSecurityContextMutator(TRUE, TRUE, JNum(1000), JNum(2000), JNum(3000))
    /\ result.mutated
    /\ ContainersBefore # Absent /\ ContainersBefore.t = "list" /\ Len(ContainersBefore.v) = 2
    /\ At(ContainersBefore.v[1], <<"securityContext">>) = SubmittedSecurityContext
    /\ At(CurrentObject, <<"spec">>) # At(submitted, <<"spec">>)
    /\ At(WrappingOutcome.object, <<"spec", "template", "spec">>) = At(CurrentObject, <<"spec">>)
    /\ At(WrappingOutcome.object, <<"spec", "template", "spec", "securityContext", "fsGroup">>) = JNum(3000)

----------------------------------------------------------------------------
\* C23: The emitted patch is a genuine diff. When all mutators of the
\* MutationChain ran to completion, the patch the chain emits is a list of
\* add / replace / remove operations which, applied in order to the object
\* the call was given, yield exactly the final object; it is not the list
\* of the objects the mutators returned.

\* one operation {op, path, value?}, its path a list of keys and indices
IsPatchOperation(p) ==
    /\ p.t = "map"
    /\ {"op", "path"} \subseteq DOMAIN p.v
    /\ p.v["op"] \in {JStr(<<"add">>), JStr(<<"replace">>), JStr(<<"remove">>)}
    /\ p.v["path"].t = "list"
    /\ Len(p.v["path"].v) >= 1

\* the document with the operation done at the path
RECURSIVE Patched(_, _, _, _)
Patched(doc, path, op, value) ==
    LET step == Head(path) IN
    IF doc.t = "map"
    THEN LET key == step.v[1] IN
         IF Len(path) > 1 THEN Put(doc, key, Patched(doc.v[key], Tail(path), op, value))
         ELSE IF op = "remove" THEN JMap([k \in DOMAIN doc.v \ {key} |-> doc.v[k]])
         ELSE Put(doc, key, value)
    ELSE LET i == step.v + 1 IN
         IF Len(path) > 1 THEN JList([doc.v EXCEPT ![i] = Patched(doc.v[i], Tail(path), op, value)])
         ELSE IF op = "remove" THEN JList(SubSeq(doc.v, 1, i - 1) \o SubSeq(doc.v, i + 1, Len(doc.v)))
         ELSE IF op = "replace" THEN JList([doc.v EXCEPT ![i] = value])
         ELSE JList(SubSeq(doc.v, 1, i - 1) \o <<value>> \o SubSeq(doc.v, i, Len(doc.v)))

RECURSIVE ApplyPatch(_, _)
ApplyPatch(doc, operations) ==
    IF operations = <<>> THEN doc
    ELSE LET p == Head(operations).v IN
         ApplyPatch(Patched(doc, p["path"].v, p["op"].v[1], IF "value" \in DOMAIN p THEN p["value"] ELSE JNull),
                    Tail(operations))

C23_GenuineDiff ==
    (RanToCompletion /\ calls = 1) =>
        /\ \A k \in 1..Len(all_patches) : IsPatchOperation(all_patches[k])
        /\ ApplyPatch(submitted, all_patches) = CurrentObject

----------------------------------------------------------------------------
\* Vocabulary of the properties of the endpoints

\* the uid of the review the endpoint was given
ReviewUid == review.v["request"].v["uid"]

\* the admission response inside the answer: the value of "response", or
\* the body itself when it has no such entry
ResponseBody ==
    LET inner == At(response.content, <<"response">>) IN
    IF inner # Absent /\ inner.t = "map" THEN inner ELSE response.content

Present(x) == x # Absent /\ x # JNull

----------------------------------------------------------------------------
\* C24: uid is echoed verbatim in every response. Every answer of
\* /validate and /mutate to a review with uid u carries uid = u, whatever
\* the verdict and also when a rule or mutator raised an error.
C24_UidEchoed == pc = "responded" => At(ResponseBody, <<"uid">>) = ReviewUid

----------------------------------------------------------------------------
\* C25: A mutation failure never causes rejection. Every answer of the
\* mutate operation has allowed = true; patch and patchType = "JSONPatch"
\* are present exactly when the chain's result is mutated, and a mutator's
\* error message is reported in status.message without a patch.
C25_NeverRejects ==
    (pc = "responded" /\ operation = "mutate") =>
        /\ At(ResponseBody, <<"allowed">>) = JBool(TRUE)
        /\ "mutated" \in DOMAIN result =>
              /\ Present(At(ResponseBody, <<"patch">>)) <=> result.mutated
              /\ (At(ResponseBody, <<"patchType">>) = JStr(<<"JSONPatch">>)) <=> result.mutated
              /\ result.message # JNull =>
                    /\ At(ResponseBody, <<"status", "message">>) = result.message
                    /\ ~Present(At(ResponseBody, <<"patch">>))

----------------------------------------------------------------------------
\* Vocabulary of the properties of shared instances

\* call t has returned or raised
Finished(t) == inflight[t].pc \in {"done", "raised"}

\* what call t returns, and the request as it leaves it, when no other call
\* runs: the whole call on the instances as constructed
Alone(t) ==
    IF inflight[t].operation = "validate"
    THEN [request |-> inflight[t].given,
          result |-> ValidatorChain_validate(config.validators, inflight[t].given)]
    ELSE MutatorChain_mutate(config.mutators, inflight[t].given)

----------------------------------------------------------------------------
\* C27: concurrent calls are independent. For chain, rule and mutator
\* instances constructed once and shared, and for every interleaving of the
\* steps of validate / mutate calls on distinct requests, the result of each
\* finished call, and the request as the call leaves it, are those of the
\* call run alone: no warning, patch, error or edit of another call shows.
C27_Independent ==
    \A t \in DOMAIN inflight :
        Finished(t) =>
            /\ inflight[t].result = Alone(t).result
            /\ inflight[t].request = Alone(t).request

\* a validation that collected warnings and a mutation that edited its
\* object, each of which took steps while the other was inside its loop,
\* have both finished
C27_Witness ==
    \E t, u \in DOMAIN inflight :
        /\ Finished(t) /\ Finished(u)
        /\ inflight[t].overlapped /\ inflight[u].overlapped
        /\ inflight[t].operation = "validate"
        /\ inflight[t].result.allowed
        /\ inflight[t].result.warnings # JNull
        /\ inflight[u].operation = "mutate"
        /\ inflight[u].request # inflight[u].given

----------------------------------------------------------------------------
\* C29: the configuration is never modified. After any sequence of validate
\* and mutate calls, every rule and every mutator holds what it was
\* constructed with (default labels and annotations, default requests and
\* limits, security defaults, allowed registries, enforce flags), even
\* though the mutators put their default maps into the request objects.
C29_ConfigurationKept ==
    /\ validators = config.validators
    /\ mutators = config.mutators

\* a mutation has finished whose object holds a default map of a mutator
\* at some place, and a later mutator of the chain edited that object
C29_Witness ==
    \E t \in DOMAIN inflight :
        /\ Finished(t)
        /\ inflight[t].operation = "mutate"
        /\ \E a \in inflight[t].shared :
            /\ a.owner < inflight[t].idx - 1
            /\ AtPlace(ObjectIn(inflight[t].request), a.place) = config.mutators[a.owner][a.field]
            /\ AtPlace(ObjectIn(inflight[t].request), <<"metadata", "labels", "team">>) # Absent

====
